---- MODULE Spec2Model ----
(***************************************************************************)
(* A model of toast, the terminal web-page renderer.                       *)
(*                                                                         *)
(*   Spec        the frame pipeline of App::run (crates/toast/src/app.rs): *)
(*               the Capture, Render and Paint tasks and the two bounded   *)
(*               channels between them.                                    *)
(*   SpecStall   Spec followed for the ticks of one Paint stall of 500 ms. *)
(*   SpecLive    Spec with the fairness the tokio scheduler gives to the   *)
(*               Render and Paint tasks.                                   *)
(*   SpecRender  the double-buffered Renderer                              *)
(*               (crates/toast-terminal/src/renderer.rs) writing to a      *)
(*               terminal, under any sequence of render calls.             *)
(*   SpecSurface the Renderer under render and clear calls, with frames    *)
(*               of at most one inked cell.                                *)
(*   SpecFaulty  the Renderer under render calls of which some fail with   *)
(*               an I/O error part-way, with frames one row high.          *)
(*                                                                         *)
(*   SpecCursor  the shared cursor position under arrow keys and the       *)
(*               arrow Paint stamps on each frame (app.rs, display_task    *)
(*               and keyboard_task), on a terminal of any size.            *)
(*   SpecInput   the Input and Click tasks and the click channel between   *)
(*               them.                                                     *)
(*   SpecRun     App::run from launch to exit: Terminal::new               *)
(*               (crates/toast-terminal/src/terminal.rs), the supervisor's *)
(*               select, the drop of the task handles and the return,      *)
(*               with the Input and Click tasks.                           *)
(*   SpecQuantize ColorQuantizer::quantize                                 *)
(*               (crates/toast-render/src/quantizer.rs) on a range of      *)
(*               colours, with the palette and the L*a*b* search behind    *)
(*               its lookup table.                                         *)
(*   SpecConvert HalfBlockConverter::convert                               *)
(*               (crates/toast-render/src/halfblock.rs) with its rows      *)
(*               converted by parallel workers in any order.               *)
(*   SpecFrame   TerminalFrame (crates/toast-core/src/types.rs) under new, *)
(*               set and get, in and out of bounds.                        *)
(*   SpecClick   ScreenshotStreamer                                        *)
(*               (crates/toast-browser/src/screenshot.rs) under            *)
(*               initialize, capture and the clicks of click_task, each    *)
(*               mouse event succeeding or failing.                        *)
(*                                                                         *)
(* A screenshot, and the frame rendered from it, is named by the number of *)
(* the interval tick that captured it, so "captured before" is "<".        *)
(***************************************************************************)
EXTENDS Integers, Sequences, FiniteSets, TLC

\* ------------------------------------------------------------ bounds
\* The number of interval ticks the Capture task is followed for.
MaxTicks == 7

\* The same for SpecLive, whose behaviours are checked as a whole.
MaxLiveTicks == 5

\* The length of the Paint stall of the back-pressure scenario, in ms;
\* SpecStall follows Capture for the ticks of such a stall.
StallMs == 500

\* The terminal's size in cells, and the cells of a frame that differ from
\* the default cell.
TermCols == 2
TermRows == 2
MaxInk == 1

\* The number of render calls that are followed failing with an I/O error.
MaxFaults == 1

\* The largest terminal the cursor, the overlay and the clicks are followed
\* on: the terminal is between 1 x 1 and MaxCols x MaxRows.
MaxCols == 6
MaxRows == 5

\* The number of arrow keys followed while clicks are in flight.
MaxMoves == 1

\* The number of values each channel of a quantized colour is drawn from.
MaxShade == 6

\* The number of click calls click_task is followed for.
MaxClicks == 2

\* ------------------------------------------------- program constants
TARGET_FPS == 15
FRAME_INTERVAL_MS == 1000 \div TARGET_FPS

\* mpsc::channel(2) and mpsc::channel(1)
ScreenshotCap == 2
FrameCap == 1

\* Ticks of the capture interval that fall into a stall of StallMs.
StallTicks == StallMs \div FRAME_INTERVAL_MS

\* No screenshot / no frame held.
NoItem == 0

VARIABLES
    tick,            \* interval ticks consumed by the Capture task
    capPc,           \* Capture: "tick" (awaiting the interval) | "capture"
    screenshot_ch,   \* the screenshot channel (screenshot_tx -> screenshot_rx)
    renderPc,        \* Render: "recv" | "render" (spawn_blocking) | "send"
    renderHeld,      \* the screenshot / frame the Render task holds
    frame_ch,        \* the frame channel (frame_tx -> frame_rx)
    paintPc,         \* Paint: "recv" | "paint"
    paintHeld,       \* the frame the Paint task holds
    rcvd,            \* history: screenshots received by Render, in order
    produced,        \* history: frames Render finished producing, in order
    painted,         \* history: frames received by Paint, in order
    notForwarded,    \* history: screenshots whose render failed or panicked
    dropped,         \* history: the screenshots dropped by Capture
    stall,           \* history of the current paint: captures and drops
    lastAct,         \* history: the step taken last
    front_buffer,    \* Renderer.front_buffer: <<>> (None) or <<frame>>
    term,            \* the terminal: its cells, cursor and attributes
    stdout_buf,      \* stdout's buffer: output written but not yet flushed
    lastOut,         \* history: the output the last renderer call wrote
    lastCall,        \* history: the last renderer call: "none" | "full" |
                     \*   "diff" | "clear" | "failed"
    lastFrame,       \* history: the frame of the last render call, if any
    lastGood,        \* history: the frame of the last render call that
                     \*   returned Ok, if any
    faults,          \* history: the number of render calls that failed
    width,           \* terminal.size(): the columns
    height,          \* terminal.size(): the rows
    cursor_pos,      \* the shared CursorPosition [x, y]
    keyPc,           \* Input: "poll" | "send" (in click_tx.send) | "done"
    keyHeld,         \* the click Input is sending: <<>> or <<(x, y)>>
    click_ch,        \* the click channel (click_tx -> click_rx)
    shutdown_ch,     \* the shutdown channel (shutdown_tx -> shutdown_rx)
    clickPc,         \* Click: "recv" | "click" (in streamer.click)
    clickHeld,       \* the click the Click task dispatches: <<>> or <<record>>
    displayPc,       \* Paint's overlay: "recv" | "overlay" | "stamp" (in the
                     \*   set_cell calls, cursor_pos locked) | "render"
    cursor_lock,     \* the mutex of cursor_pos: "free" | "display"
    overlayIdx,      \* the set_cell call Paint makes next
    displayFrame,    \* the frame Paint holds: <<>> or <<frame>>
    moves,           \* history: arrow keys handled while counted
    outstanding,     \* history: cursor positions at the Enter presses whose
                     \*   click the Click task has not received yet
    dispatching,     \* history: the position at the Enter press of the click
                     \*   the Click task received last
    overlayIn,       \* history: the frame Paint received, before the overlay
    overlayPos,      \* history: the cursor position the overlay was drawn at
    lastKey,         \* history: the arrow key the last step handled, or
                     \*   "none" when the last step handled no arrow key
    run,             \* App::run: [pc] where it is, [result] what it returned
                     \*   and [sigint] whether an OS interrupt has arrived
    tty,             \* the terminal's modes [alt_screen, raw_mode,
                     \*   cursor_hidden] and whether the TerminalGuard
                     \*   exists [guard]
    q_rgb,           \* the colour handed to ColorQuantizer::quantize
    q_ansi,          \* what quantize returned: <<>> or <<index>>
    conv_image,      \* convert's image
    conv_width,      \* convert's term_width
    conv_height,     \* convert's term_height
    conv_rows,       \* per row index: <<>> or <<the row a worker produced>>
    conv_finished,   \* the row indices in the order the workers finished
    conv_frame,      \* what convert returned: <<>> or <<frame>>
    frame_op,        \* a TerminalFrame under new, set and get: [frame] as it
                     \*   is, [before] as it was before the last call,
                     \*   [call] the last call, [result] what get returned
    browser          \* the ScreenshotStreamer and its page: [page] whether
                     \*   initialize has set it, [events] the mouse events
                     \*   handed to page.execute, [pc] where click stands,
                     \*   [at] the coordinates of the click, [n] the number
                     \*   of click calls, [result] the last call to return

pipeVars == <<tick, capPc, screenshot_ch, renderPc, renderHeld, frame_ch,
              paintPc, paintHeld, rcvd, produced, painted, notForwarded,
              dropped, stall, lastAct>>

rendVars == <<front_buffer, term, stdout_buf, lastOut, lastCall, lastFrame,
              lastGood, faults>>

inputVars == <<width, height, cursor_pos, keyPc, keyHeld, click_ch,
               shutdown_ch, clickPc, clickHeld, displayPc, cursor_lock,
               overlayIdx, displayFrame,
               moves, outstanding, dispatching, overlayIn, overlayPos, lastKey>>

lifeVars == <<run, tty>>

quantVars == <<q_rgb, q_ansi>>

convVars == <<conv_image, conv_width, conv_height, conv_rows, conv_finished,
              conv_frame>>

coreVars == <<frame_op, browser>>

drawVars == <<quantVars, convVars, coreVars>>

vars == <<pipeVars, rendVars, inputVars, lifeVars, drawVars>>

\* mpsc::channel(1) for the shutdown signal, mpsc::channel(10) for clicks
ShutdownCap == 1
ClickCap == 10

\* The browser viewport the Click task maps to.
VIEWPORT_WIDTH == 1920
VIEWPORT_HEIGHT == 1080

\* let black = AnsiColor(16)
black == 16

\* ------------------------------------------------------------ helpers
Range(s) == {s[i] : i \in 1..Len(s)}

Last(s) == s[Len(s)]

\* ------------------------------------------------- tokio mpsc channel
\* Sender::try_send: the value is queued when a permit is free, and
\* otherwise handed back in the error (the queue is not touched).
try_send_drop_oldest(ch, cap, v) ==
    IF Len(ch) < cap THEN [ok |-> TRUE, ch |-> Append(ch, v)]
    ELSE [ok |-> FALSE, ch |-> Append(Tail(ch), v)]

try_send_unbounded(ch, cap, v) ==
    [ok |-> TRUE, ch |-> Append(ch, v)]

try_send_off_by_one(ch, cap, v) ==
    IF Len(ch) <= cap THEN [ok |-> TRUE, ch |-> Append(ch, v)]
    ELSE [ok |-> FALSE, ch |-> ch]

try_send(ch, cap, v) ==
    IF Len(ch) < cap THEN [ok |-> TRUE, ch |-> Append(ch, v)]
    ELSE [ok |-> FALSE, ch |-> ch]

\* Sender::send(..).await completes once a permit is free.
send_ready_off_by_one(ch, cap) == Len(ch) <= cap

send_ready_always(ch, cap) == TRUE

send_ready(ch, cap) == Len(ch) < cap

\* Receiver::recv yields the oldest queued value.
recv_newest(ch) == [v |-> Last(ch), ch |-> SubSeq(ch, 1, Len(ch) - 1)]

recv(ch) == [v |-> Head(ch), ch |-> Tail(ch)]

\* --------------------------------------------------- stall bookkeeping
\* While Paint is inside one paint, count the captures that completed and
\* the screenshots dropped; `clean` is lost when a capture or a render fails.
StallReset == [ticks |-> 0, drops |-> 0, clean |-> TRUE]

StallCapture(isDrop) ==
    IF paintPc = "paint"
    THEN [stall EXCEPT !.ticks = IF @ < StallTicks + 1 THEN @ + 1 ELSE @,
                       !.drops = IF isDrop /\ @ < StallTicks + 1 THEN @ + 1 ELSE @]
    ELSE stall

StallFailure ==
    IF paintPc = "paint" THEN [stall EXCEPT !.clean = FALSE] ELSE stall

\* ------------------------------------------------------ TerminalFrame
\* vec![TerminalCell { ' ', AnsiColor(0), AnsiColor(0) }; width * height]
default_cell ==
    [character |-> "space", foreground |-> 0, background |-> 0]

\* A cell as the half-block converter emits it.
ink_cell ==
    [character |-> "upper_half", foreground |-> 15, background |-> 0]

CellValues == {default_cell, ink_cell}

\* TerminalFrame::get
get(frame, x, y) ==
    IF x < frame.width /\ y < frame.height
    THEN <<frame.cells[y * frame.width + x + 1]>>
    ELSE <<>>

\* TerminalFrame::new
new(w, h) ==
    [width |-> w, height |-> h, cells |-> [i \in 1..(w * h) |-> default_cell]]

\* A set that writes an out-of-bounds cell to the last cell of the frame.
set_clamped(frame, x, y, cell) ==
    IF x < frame.width /\ y < frame.height
    THEN [frame EXCEPT !.cells[y * frame.width + x + 1] = cell]
    ELSE [frame EXCEPT !.cells[frame.width * frame.height] = cell]

\* TerminalFrame::set
set(frame, x, y, cell) ==
    IF x < frame.width /\ y < frame.height
    THEN [frame EXCEPT !.cells[y * frame.width + x + 1] = cell]
    ELSE frame

\* The frames of width w and height h with at most MaxInk inked cells.
FramesOf(w, h) ==
    {[width |-> w, height |-> h, cells |-> c] :
        c \in {d \in [1..(w * h) -> CellValues] :
                 Cardinality({i \in 1..(w * h) : d[i] # default_cell}) <= MaxInk}}

\* The frame sizes handed to the Renderer: the terminal's, a flatter and a
\* narrower one.
FrameDims ==
    {<<TermCols, TermRows>>, <<TermCols, TermRows - 1>>,
     <<TermCols - 1, TermRows>>}

Frames == UNION {FramesOf(d[1], d[2]) : d \in FrameDims}

\* ------------------------------------------------- Renderer's output
\* cursor::MoveTo(x as u16, y as u16)
MoveTo(x, y) == <<"MoveTo", x % 65536, y % 65536>>

\* cursor::MoveToNextLine(n)
MoveToNextLine(n) == <<"NextLine", n>>

\* "\x1b[0m"
AttrReset == <<"Reset">>

\* crossterm::terminal::Clear(ClearType::All)
ClearAll == <<"ClearAll">>

\* "\x1b[38;5;{}m\x1b[48;5;{}m{}"
cell_bytes(cell) ==
    << <<"Fg", cell.foreground>>, <<"Bg", cell.background>>,
       <<"Glyph", cell.character>> >>

\* Renderer::render_full: the inner loop over x of row y
RECURSIVE full_row(_, _, _)
full_row(frame, y, x) ==
    IF x >= frame.width THEN <<>>
    ELSE LET cell == get(frame, x, y)
         IN  (IF cell # <<>> THEN cell_bytes(cell[1]) ELSE <<>>)
             \o full_row(frame, y, x + 1)

\* Renderer::render_full: the loop over y
RECURSIVE full_rows(_, _)
full_rows(frame, y) ==
    IF y >= frame.height THEN <<>>
    ELSE full_row(frame, y, 0)
         \o (IF y < frame.height - 1 THEN <<MoveToNextLine(1)>> ELSE <<>>)
         \o full_rows(frame, y + 1)

render_full(frame) ==
    <<MoveTo(0, 0)>> \o full_rows(frame, 0) \o <<AttrReset>>

\* old_cell != new_cell
cell_changed_always(old_cell, new_cell) == TRUE

cell_changed(old_cell, new_cell) == old_cell # new_cell

\* last_x != Some(x) || last_y != Some(y)
need_move_ignores_row(last_x, last_y, x, y) == last_x # <<x>>

need_move_always(last_x, last_y, x, y) == TRUE

need_move(last_x, last_y, x, y) == last_x # <<x>> \/ last_y # <<y>>

\* Renderer::render_diff: the loops over y and x, cell i = y * width + x
RECURSIVE diff_cells(_, _, _, _, _)
diff_cells(old_frame, new_frame, i, last_x, last_y) ==
    IF i >= new_frame.width * new_frame.height THEN <<>>
    ELSE LET x == i % new_frame.width
             y == i \div new_frame.width
             old_cell == get(old_frame, x, y)
             new_cell == get(new_frame, x, y)
         IN  IF cell_changed(old_cell, new_cell) /\ new_cell # <<>>
             THEN (IF need_move(last_x, last_y, x, y)
                   THEN <<MoveTo(x, y)>> ELSE <<>>)
                  \o cell_bytes(new_cell[1])
                  \o diff_cells(old_frame, new_frame, i + 1, <<x + 1>>, <<y>>)
             ELSE diff_cells(old_frame, new_frame, i + 1, last_x, last_y)

\* Renderer::render_diff: which paint it does, and the output
render_diff_width_only(old_frame, new_frame) ==
    IF old_frame.width # new_frame.width
    THEN [kind |-> "full", out |-> render_full(new_frame)]
    ELSE [kind |-> "diff",
          out |-> diff_cells(old_frame, new_frame, 0, <<>>, <<>>)
                  \o <<AttrReset>>]

render_diff(old_frame, new_frame) ==
    IF old_frame.width # new_frame.width \/ old_frame.height # new_frame.height
    THEN [kind |-> "full", out |-> render_full(new_frame)]
    ELSE [kind |-> "diff",
          out |-> diff_cells(old_frame, new_frame, 0, <<>>, <<>>)
                  \o <<AttrReset>>]

\* Renderer::render: the match on the front buffer
render_paint(front, new_frame) ==
    IF front = <<>>
    THEN [kind |-> "full", out |-> render_full(new_frame)]
    ELSE render_diff(front[1], new_frame)

\* ------------------------------------------------------ the terminal
\* What the terminal does with the Renderer's output: a grid of TermCols
\* by TermRows cells, a cursor with the pending wrap of the last column,
\* and the current colours (-1: the terminal's default).
erased_cell == [character |-> "space", foreground |-> -1, background |-> -1]

TermCells == (0..(TermCols - 1)) \X (0..(TermRows - 1))

TermInit ==
    [cells |-> [p \in TermCells |-> erased_cell],
     cx |-> 0, cy |-> 0, fg |-> -1, bg |-> -1, wrap |-> FALSE]

Min(a, b) == IF a < b THEN a ELSE b

\* A glyph written after the last column wraps to the next line, scrolling
\* the grid when the cursor is on the last line.
TermWrap(t) ==
    IF ~t.wrap THEN t
    ELSE IF t.cy < TermRows - 1
         THEN [t EXCEPT !.cx = 0, !.cy = t.cy + 1, !.wrap = FALSE]
         ELSE [t EXCEPT !.cx = 0, !.wrap = FALSE,
                        !.cells = [p \in TermCells |->
                                     IF p[2] < TermRows - 1
                                     THEN t.cells[<<p[1], p[2] + 1>>]
                                     ELSE erased_cell]]

TermGlyph(t, ch) ==
    LET u == TermWrap(t)
        v == [u EXCEPT !.cells[<<u.cx, u.cy>>] =
                 [character |-> ch, foreground |-> u.fg, background |-> u.bg]]
    IN  IF u.cx = TermCols - 1
        THEN [v EXCEPT !.wrap = TRUE]
        ELSE [v EXCEPT !.cx = u.cx + 1]

TermStep(t, op) ==
    CASE op[1] = "MoveTo" ->
           [t EXCEPT !.cx = Min(op[2], TermCols - 1),
                     !.cy = Min(op[3], TermRows - 1), !.wrap = FALSE]
      [] op[1] = "NextLine" ->
           [t EXCEPT !.cx = 0, !.cy = Min(t.cy + op[2], TermRows - 1),
                     !.wrap = FALSE]
      [] op[1] = "Fg" -> [t EXCEPT !.fg = op[2]]
      [] op[1] = "Bg" -> [t EXCEPT !.bg = op[2]]
      [] op[1] = "Reset" -> [t EXCEPT !.fg = -1, !.bg = -1]
      [] op[1] = "Glyph" -> TermGlyph(t, op[2])
      [] op[1] = "ClearAll" ->
           [t EXCEPT !.cells = [p \in TermCells |->
                                  [character |-> "space", foreground |-> -1,
                                   background |-> t.bg]]]

RECURSIVE TermApply(_, _)
TermApply(t, ops) ==
    IF ops = <<>> THEN t ELSE TermApply(TermStep(t, Head(ops)), Tail(ops))

\* The terminal shows `frame` in the frame's area.
Shows(t, frame) ==
    \A x \in 0..(frame.width - 1) : \A y \in 0..(frame.height - 1) :
        <<t.cells[<<x, y>>]>> = get(frame, x, y)

\* ------------------------------------------------- ColorQuantizer
Rgb(r, g, b) == [r |-> r, g |-> g, b |-> b]

\* `as u8`
u8(v) == v % 256

\* a | b on unsigned integers
RECURSIVE bit_or(_, _)
bit_or(a, b) ==
    IF a = 0 THEN b
    ELSE IF b = 0 THEN a
    ELSE (IF a % 2 = 1 \/ b % 2 = 1 THEN 1 ELSE 0)
            + 2 * bit_or(a \div 2, b \div 2)

\* A colour cube whose six levels are spaced evenly.
cube_level_linear(i) == i * 51

\* `if r == 0 { 0 } else { 55 + r * 40 }`
cube_level(i) == IF i = 0 THEN 0 ELSE 55 + i * 40

\* The three nested while loops over r, g and b with idx counting up;
\* each carries the palette and idx as [palette, idx].
RECURSIVE cube_loop_b(_, _, _, _)
cube_loop_b(st, r, g, b) ==
    IF b >= 6 \/ st.idx > 255 THEN st
    ELSE cube_loop_b(
             [palette |-> [st.palette EXCEPT ![st.idx] =
                              Rgb(u8(cube_level(r)), u8(cube_level(g)),
                                  u8(cube_level(b)))],
              idx |-> st.idx + 1],
             r, g, b + 1)

RECURSIVE cube_loop_g(_, _, _)
cube_loop_g(st, r, g) ==
    IF g >= 6 \/ st.idx > 255 THEN st
    ELSE cube_loop_g(cube_loop_b(st, r, g, 0), r, g + 1)

RECURSIVE cube_loop_r(_, _)
cube_loop_r(st, r) ==
    IF r >= 6 \/ st.idx > 255 THEN st
    ELSE cube_loop_r(cube_loop_g(st, r, 0), r + 1)

\* The while loop over the 24 greys.
RECURSIVE gray_loop(_, _)
gray_loop(palette, i) ==
    IF i >= 24 THEN palette
    ELSE gray_loop([palette EXCEPT ![232 + i] =
                        Rgb(u8(8 + i * 10), u8(8 + i * 10), u8(8 + i * 10))],
                   i + 1)

\* palette[0] .. palette[15]
basic_colors ==
    <<Rgb(0, 0, 0), Rgb(128, 0, 0), Rgb(0, 128, 0), Rgb(128, 128, 0),
      Rgb(0, 0, 128), Rgb(128, 0, 128), Rgb(0, 128, 128), Rgb(192, 192, 192),
      Rgb(128, 128, 128), Rgb(255, 0, 0), Rgb(0, 255, 0), Rgb(255, 255, 0),
      Rgb(0, 0, 255), Rgb(255, 0, 255), Rgb(0, 255, 255), Rgb(255, 255, 255)>>

generate_ansi_palette ==
    gray_loop(
        cube_loop_r(
            [palette |-> [i \in 0..255 |->
                            IF i < 16 THEN basic_colors[i + 1]
                            ELSE Rgb(0, 0, 0)],
             idx |-> 16],
            0).palette,
        0)

ANSI_PALETTE == generate_ansi_palette

\* Lab arithmetic is carried in fixed point: gamma-expanded channels and
\* X, Y, Z in units of 1/10000, f(t) in units of 1/1000, L, a and b in
\* units of 1/100.
\* gamma_expand(c / 255) for each channel value c = 0 .. 255.
gamma_table ==
<<
    0, 3, 6, 9, 12, 15, 18, 21, 24, 27, 30, 33, 37, 40, 44, 48,
    52, 56, 60, 65, 70, 75, 80, 86, 91, 97, 103, 110, 116, 123, 130, 137,
    144, 152, 160, 168, 176, 185, 194, 203, 212, 222, 232, 242, 252, 262, 273, 284,
    296, 307, 319, 331, 343, 356, 369, 382, 395, 409, 423, 437, 452, 467, 482, 497,
    513, 529, 545, 561, 578, 595, 612, 630, 648, 666, 685, 704, 723, 742, 762, 782,
    802, 823, 844, 865, 887, 908, 931, 953, 976, 999, 1022, 1046, 1070, 1095, 1119, 1144,
    1170, 1195, 1221, 1248, 1274, 1301, 1329, 1356, 1384, 1413, 1441, 1470, 1500, 1529, 1559, 1590,
    1620, 1651, 1683, 1714, 1746, 1779, 1812, 1845, 1878, 1912, 1946, 1981, 2016, 2051, 2086, 2122,
    2159, 2195, 2232, 2270, 2307, 2346, 2384, 2423, 2462, 2502, 2542, 2582, 2623, 2664, 2705, 2747,
    2789, 2831, 2874, 2918, 2961, 3005, 3050, 3095, 3140, 3185, 3231, 3278, 3325, 3372, 3419, 3467,
    3515, 3564, 3613, 3663, 3712, 3763, 3813, 3864, 3916, 3968, 4020, 4072, 4125, 4179, 4233, 4287,
    4342, 4397, 4452, 4508, 4564, 4621, 4678, 4735, 4793, 4851, 4910, 4969, 5029, 5089, 5149, 5210,
    5271, 5333, 5395, 5457, 5520, 5583, 5647, 5711, 5776, 5841, 5906, 5972, 6038, 6105, 6172, 6240,
    6308, 6376, 6445, 6514, 6584, 6654, 6724, 6795, 6867, 6939, 7011, 7084, 7157, 7231, 7305, 7379,
    7454, 7529, 7605, 7682, 7758, 7835, 7913, 7991, 8070, 8148, 8228, 8308, 8388, 8469, 8550, 8632,
    8714, 8796, 8879, 8963, 9047, 9131, 9216, 9301, 9387, 9473, 9560, 9647, 9734, 9823, 9911, 10000
>>

gamma_expand(c) == gamma_table[c + 1]

\* The largest y in lo .. hi - 1 with y^3 <= n.
RECURSIVE cbrt_search(_, _, _)
cbrt_search(n, lo, hi) ==
    IF hi - lo <= 1 THEN lo
    ELSE LET mid == (lo + hi) \div 2
         IN  IF mid * mid * mid <= n
             THEN cbrt_search(n, mid, hi)
             ELSE cbrt_search(n, lo, mid)

\* t.cbrt() for t in 0 .. 1.0001, t in 1/10000 and the root in 1/1000.
cbrt(t) == cbrt_search(t * 100000, 0, 1001)

\* DELTA^3 = 0.008856; 1 / (3 DELTA^2) = 7.787; 4/29 = 0.138
lab_f(t) ==
    IF t > 88 THEN cbrt(t) ELSE (t * 7787) \div 10000 + 138

rgb_to_lab(rgb) ==
    LET r == gamma_expand(rgb.r)
        g == gamma_expand(rgb.g)
        b == gamma_expand(rgb.b)
        x == (r * 4125 + g * 3576 + b * 1804) \div 10000
        y == (r * 2127 + g * 7152 + b * 722) \div 10000
        z == (r * 193 + g * 1192 + b * 9503) \div 10000
        fx == lab_f((x * 100000) \div 95047)
        fy == lab_f(y)
        fz == lab_f((z * 100000) \div 108883)
    IN  [l |-> (116 * fy - 16000) \div 10,
         a |-> 50 * (fx - fy),
         b |-> 20 * (fy - fz)]

\* The distance is carried as its square: sqrt is monotonic, so
\* `distance < min_distance` compares the squares.
color_distance_lab(lab1, lab2) ==
    LET dl == lab1.l - lab2.l
        da == lab1.a - lab2.a
        db == lab1.b - lab2.b
    IN  dl * dl + da * da + db * db

\* rgb_to_lab(ansi_rgb) for each palette entry.
palette_lab == [idx \in 0..255 |-> rgb_to_lab(ANSI_PALETTE[idx])]

\* `if distance <= min_distance`: a later entry at an equal distance
\* replaces the earlier one.
is_nearer_or_equal(distance, min_distance) ==
    min_distance = <<>> \/ distance <= min_distance[1]

\* `if distance < min_distance`, with min_distance <<>> for f32::INFINITY.
is_nearer(distance, min_distance) ==
    min_distance = <<>> \/ distance < min_distance[1]

\* The loop of find_nearest_ansi_color over the palette entries
\* idx .. last, with min_distance and best_idx as they stand in st.
RECURSIVE nearest_loop(_, _, _, _)
nearest_loop(lab, idx, last, st) ==
    IF idx > last THEN st
    ELSE LET distance == color_distance_lab(lab, palette_lab[idx])
         IN  IF is_nearer(distance, st.min_distance)
             THEN nearest_loop(lab, idx + 1, last,
                      [min_distance |-> <<distance>>, best_idx |-> idx])
             ELSE nearest_loop(lab, idx + 1, last, st)

\* A search of the colour cube and the grey ramp alone, entries 16 .. 255.
find_nearest_past_basic_colors(rgb) ==
    LET lab == rgb_to_lab(rgb)
        s0 == [min_distance |-> <<>>, best_idx |-> 0]
        s1 == nearest_loop(lab, 16, 63, s0)
        s2 == nearest_loop(lab, 64, 127, s1)
        s3 == nearest_loop(lab, 128, 191, s2)
        s4 == nearest_loop(lab, 192, 255, s3)
    IN  s4.best_idx

\* The whole loop, entries 0 .. 255 in order, evaluated in four stretches.
find_nearest_ansi_color(rgb) ==
    LET lab == rgb_to_lab(rgb)
        s0 == [min_distance |-> <<>>, best_idx |-> 0]
        s1 == nearest_loop(lab, 0, 63, s0)
        s2 == nearest_loop(lab, 64, 127, s1)
        s3 == nearest_loop(lab, 128, 191, s2)
        s4 == nearest_loop(lab, 192, 255, s3)
    IN  s4.best_idx

\* A lut_index that shifts the red bits by 9.
lut_index_short_shift(r5, g5, b5) == bit_or(bit_or(r5 * 512, g5 * 32), b5)

\* fn lut_index: (r5 << 10) | (g5 << 5) | b5
lut_index(r5, g5, b5) == bit_or(bit_or(r5 * 1024, g5 * 32), b5)

\* `(c5 << 3) | (c5 >> 2)` in u8
expand(c5) == bit_or(u8(c5 * 8), c5 \div 4)

\* lut[idx] after ColorQuantizer::new: what the loop stored there for the
\* key whose lut_index is idx (each index is written once).
lut(idx) ==
    LET r5 == idx \div 1024
        g5 == (idx \div 32) % 32
        b5 == idx % 32
    IN  find_nearest_ansi_color(Rgb(expand(r5), expand(g5), expand(b5)))

\* A quantize that rounds each channel to the nearest of the 32 levels.
quantize_rounding(rgb) ==
    LET r5 == IF rgb.r >= 252 THEN 31 ELSE (rgb.r + 4) \div 8
        g5 == IF rgb.g >= 252 THEN 31 ELSE (rgb.g + 4) \div 8
        b5 == IF rgb.b >= 252 THEN 31 ELSE (rgb.b + 4) \div 8
    IN  lut(lut_index(r5, g5, b5))

\* ColorQuantizer::quantize
quantize(rgb) ==
    LET r5 == rgb.r \div 8
        g5 == rgb.g \div 8
        b5 == rgb.b \div 8
    IN  lut(lut_index(r5, g5, b5))

\* --------------------------------------------- HalfBlockConverter
UPPER_HALF_BLOCK == "upper_half"

FULL_BLOCK == "full_block"

\* RgbImage::get_pixel; data holds the bytes from index 1.
get_pixel(img, x, y) ==
    LET offset == (y * img.width + x) * 3
    IN  Rgb(img.data[offset + 1], img.data[offset + 2], img.data[offset + 3])

\* The pixel colours of the images followed: black, white and a blue too
\* dark to leave black's RGB555 key.
PixelColours == {Rgb(0, 0, 0), Rgb(255, 255, 255), Rgb(0, 0, 7)}

\* The converter's quantizer, built once by HalfBlockConverter::new:
\* quantizer[rgb] is self.quantizer.quantize(rgb), held for the pixel
\* colours followed.
quantizer == [rgb \in PixelColours |-> quantize(rgb)]

\* A convert_cell that draws the lower pixel as the foreground.
convert_cell_bottom_foreground(img, cell_x, cell_y) ==
    LET pixel_y_top == cell_y * 2
        pixel_y_bottom == pixel_y_top + 1
        top_rgb == get_pixel(img, cell_x, pixel_y_top)
        bottom_rgb == IF pixel_y_bottom < img.height
                      THEN get_pixel(img, cell_x, pixel_y_bottom)
                      ELSE top_rgb
        top_ansi == quantizer[top_rgb]
        bottom_ansi == quantizer[bottom_rgb]
    IN  IF top_ansi = bottom_ansi
        THEN [character |-> FULL_BLOCK, foreground |-> top_ansi,
              background |-> top_ansi]
        ELSE [character |-> UPPER_HALF_BLOCK, foreground |-> bottom_ansi,
              background |-> top_ansi]

\* HalfBlockConverter::convert_cell
convert_cell(img, cell_x, cell_y) ==
    LET pixel_y_top == cell_y * 2
        pixel_y_bottom == pixel_y_top + 1
        top_rgb == get_pixel(img, cell_x, pixel_y_top)
        bottom_rgb == IF pixel_y_bottom < img.height
                      THEN get_pixel(img, cell_x, pixel_y_bottom)
                      ELSE top_rgb
        top_ansi == quantizer[top_rgb]
        bottom_ansi == quantizer[bottom_rgb]
    IN  IF top_ansi = bottom_ansi
        THEN [character |-> FULL_BLOCK, foreground |-> top_ansi,
              background |-> top_ansi]
        ELSE [character |-> UPPER_HALF_BLOCK, foreground |-> top_ansi,
              background |-> bottom_ansi]

\* The closure mapped over the rows: `for x in 0..term_width`, each cell
\* pushed onto the row.
RECURSIVE convert_row(_, _, _, _, _)
convert_row(img, term_width, y, x, row) ==
    IF x >= term_width THEN row
    ELSE convert_row(img, term_width, y, x + 1,
                     Append(row, convert_cell(img, x, y)))

\* A collect that returns the rows as the workers finished them: done maps
\* each row index to its row, order lists the indices as they finished.
collect_as_finished(done, order) ==
    [i \in 1..Len(order) |-> done[order[i]][1]]

\* collect() of the indexed parallel iterator: the rows by index, whatever
\* the order the workers finished them in.
collect(done, order) ==
    [i \in 1..Len(order) |-> done[i - 1][1]]

\* `for (x, cell) in row.into_iter().enumerate() { frame.set(x, y, cell) }`
RECURSIVE copy_row(_, _, _, _)
copy_row(frame, row, y, x) ==
    IF x >= Len(row) THEN frame
    ELSE copy_row(set(frame, x, y, row[x + 1]), row, y, x + 1)

\* `for (y, row) in rows.into_iter().enumerate()`
RECURSIVE copy_rows(_, _, _)
copy_rows(frame, collected, y) ==
    IF y >= Len(collected) THEN frame
    ELSE copy_rows(copy_row(frame, collected[y + 1], y, 0), collected, y + 1)

\* The rows converted one after the other, row 0 first.
RECURSIVE rows_in_turn(_, _, _, _, _)
rows_in_turn(img, term_width, term_height, y, collected) ==
    IF y >= term_height THEN collected
    ELSE rows_in_turn(img, term_width, term_height, y + 1,
             Append(collected, convert_row(img, term_width, y, 0, <<>>)))

\* convert with a sequential iterator in place of the parallel one.
convert_sequential(img, term_width, term_height) ==
    copy_rows(new(term_width, term_height),
              rows_in_turn(img, term_width, term_height, 0, <<>>), 0)

\* The bytes of an image whose pixel i (row-major, from 1) has colour px[i].
image_data(px, n) ==
    [k \in 1..(3 * n) |->
        LET c == px[(k - 1) \div 3 + 1]
        IN  IF k % 3 = 1 THEN c.r ELSE IF k % 3 = 2 THEN c.g ELSE c.b]

\* The ways to colour at most MaxInk of n pixels other than black: each
\* maps the pixels it colours to their colours.
Tints(n) ==
    UNION {[P -> PixelColours \ {Rgb(0, 0, 0)}] :
              P \in {Q \in SUBSET (1..n) : Cardinality(Q) <= MaxInk}}

\* The images w pixels wide and h high with at most MaxInk pixels that
\* are not black.
ImagesOf(w, h) ==
    {[width |-> w, height |-> h,
      data |-> image_data([i \in 1..(w * h) |->
                              IF i \in DOMAIN t THEN t[i] ELSE Rgb(0, 0, 0)],
                          w * h)] :
        t \in Tints(w * h)}

\* ------------------------------------------------------------- Init
PipeInit ==
    /\ tick = 0
    /\ capPc = "tick"
    /\ screenshot_ch = <<>>
    /\ renderPc = "recv"
    /\ renderHeld = NoItem
    /\ frame_ch = <<>>
    /\ paintPc = "recv"
    /\ paintHeld = NoItem
    /\ rcvd = <<>>
    /\ produced = <<>>
    /\ painted = <<>>
    /\ notForwarded = {}
    /\ dropped = {}
    /\ stall = StallReset
    /\ lastAct = "Init"

\* Renderer::new, on the blank alternate screen Terminal::new entered
RendInit ==
    /\ front_buffer = <<>>
    /\ term = TermInit
    /\ stdout_buf = <<>>
    /\ lastOut = <<>>
    /\ lastCall = "none"
    /\ lastFrame = <<>>
    /\ lastGood = <<>>
    /\ faults = 0

\* App::run up to the spawning of the tasks, on a terminal of w columns and
\* h rows: the cursor in the middle, the channels empty.
InputInit(w, h) ==
    /\ width = w
    /\ height = h
    /\ cursor_pos = [x |-> w \div 2, y |-> h \div 2]
    /\ keyPc = "poll"
    /\ keyHeld = <<>>
    /\ click_ch = <<>>
    /\ shutdown_ch = <<>>
    /\ clickPc = "recv"
    /\ clickHeld = <<>>
    /\ displayPc = "recv"
    /\ cursor_lock = "free"
    /\ overlayIdx = 1
    /\ displayFrame = <<>>
    /\ moves = 0
    /\ outstanding = <<>>
    /\ dispatching = <<>>
    /\ overlayIn = <<>>
    /\ overlayPos = <<>>
    /\ lastKey = "none"

\* App::run has spawned the five tasks and waits in its select: the
\* terminal is in the alternate screen and in raw mode, its cursor hidden.
LifeRunning ==
    /\ run = [pc |-> "running", result |-> "none", sigint |-> FALSE]
    /\ tty = [alt_screen |-> TRUE, raw_mode |-> TRUE, cursor_hidden |-> TRUE,
              guard |-> TRUE]

\* No colour has been quantized and no image converted.
QuantIdle ==
    /\ q_rgb = Rgb(0, 0, 0)
    /\ q_ansi = <<>>

ConvIdle ==
    /\ conv_image = [width |-> 0, height |-> 0, data |-> <<>>]
    /\ conv_width = 0
    /\ conv_height = 0
    /\ conv_rows = <<>>
    /\ conv_finished = <<>>
    /\ conv_frame = <<>>

\* ScreenshotStreamer::new: page is None.
streamer_new ==
    [page |-> FALSE, events |-> <<>>, pc |-> "idle", at |-> <<>>, n |-> 0,
     result |-> <<"new", "Ok">>]

\* The streamer after initialize, as the tasks of run() share it.
streamer_ready ==
    [streamer_new EXCEPT !.page = TRUE, !.result = <<"initialize", "Ok">>]

\* No frame is under new, set and get, and the streamer has its page and
\* no click under way.
CoreIdle ==
    /\ frame_op = [frame |-> new(0, 0), before |-> <<>>,
                   call |-> <<"new", 0, 0>>, result |-> <<>>]
    /\ browser = streamer_ready

DrawIdle == QuantIdle /\ ConvIdle /\ CoreIdle

Init ==
    /\ PipeInit /\ RendInit /\ InputInit(MaxCols, MaxRows) /\ LifeRunning
    /\ DrawIdle

\* Init on a terminal of any size from 1 x 1 to MaxCols x MaxRows.
InitAnySize ==
    /\ PipeInit
    /\ RendInit
    /\ \E w \in 1..MaxCols : \E h \in 1..MaxRows : InputInit(w, h)
    /\ LifeRunning
    /\ DrawIdle

\* ------------------------------------------------ screenshot_task
\* interval.tick().await, followed for the first `limit` ticks
CaptureTickUpTo(limit) ==
    /\ capPc = "tick"
    /\ tick < limit
    /\ tick' = tick + 1
    /\ capPc' = "capture"
    /\ lastAct' = "CaptureTick"
    /\ UNCHANGED <<screenshot_ch, renderPc, renderHeld, frame_ch, paintPc,
                   paintHeld, rcvd, produced, painted, notForwarded,
                   dropped, stall>>
    /\ UNCHANGED <<rendVars, inputVars, lifeVars, drawVars>>

CaptureTick == CaptureTickUpTo(MaxTicks)

CaptureTickLive == CaptureTickUpTo(MaxLiveTicks)

\* The tick whose frame Paint stalls on and the ticks of a stall of StallMs.
CaptureTickStall == CaptureTickUpTo(StallTicks + 1)

\* A capture that waits for room in the channel, as send(..).await would.
CaptureOkWaiting ==
    /\ capPc = "capture"
    /\ Len(screenshot_ch) < ScreenshotCap
    /\ screenshot_ch' = Append(screenshot_ch, tick)
    /\ stall' = StallCapture(FALSE)
    /\ capPc' = "tick"
    /\ lastAct' = "CaptureOk"
    /\ UNCHANGED <<tick, renderPc, renderHeld, frame_ch, paintPc, paintHeld,
                   rcvd, produced, painted, notForwarded, dropped>>
    /\ UNCHANGED <<rendVars, inputVars, lifeVars, drawVars>>

\* streamer.capture().await is Ok(screenshot): try_send, drop when full.
CaptureOk ==
    /\ capPc = "capture"
    /\ LET r == try_send(screenshot_ch, ScreenshotCap, tick)
       IN  /\ screenshot_ch' = r.ch
           /\ dropped' = IF r.ok THEN dropped ELSE dropped \cup {tick}
           /\ stall' = StallCapture(~r.ok)
    /\ capPc' = "tick"
    /\ lastAct' = "CaptureOk"
    /\ UNCHANGED <<tick, renderPc, renderHeld, frame_ch, paintPc, paintHeld,
                   rcvd, produced, painted, notForwarded>>
    /\ UNCHANGED <<rendVars, inputVars, lifeVars, drawVars>>

\* streamer.capture().await is Err(e): logged, the loop goes on.
CaptureErr ==
    /\ capPc = "capture"
    /\ capPc' = "tick"
    /\ stall' = StallFailure
    /\ lastAct' = "CaptureErr"
    /\ UNCHANGED <<tick, screenshot_ch, renderPc, renderHeld, frame_ch,
                   paintPc, paintHeld, rcvd, produced, painted,
                   notForwarded, dropped>>
    /\ UNCHANGED <<rendVars, inputVars, lifeVars, drawVars>>

\* ------------------------------------------------------ render_task
\* screenshot_rx.recv().await is Some(screenshot)
RenderRecv ==
    /\ renderPc = "recv"
    /\ screenshot_ch # <<>>
    /\ LET r == recv(screenshot_ch)
       IN  /\ renderHeld' = r.v
           /\ screenshot_ch' = r.ch
           /\ rcvd' = Append(rcvd, r.v)
    /\ renderPc' = "render"
    /\ lastAct' = "RenderRecv"
    /\ UNCHANGED <<tick, capPc, frame_ch, paintPc, paintHeld, produced,
                   painted, notForwarded, dropped, stall>>
    /\ UNCHANGED <<rendVars, inputVars, lifeVars, drawVars>>

\* spawn_blocking(..).await is Ok(Ok(frame))
RenderOk ==
    /\ renderPc = "render"
    /\ renderPc' = "send"
    /\ produced' = Append(produced, renderHeld)
    /\ lastAct' = "RenderOk"
    /\ UNCHANGED <<tick, capPc, screenshot_ch, renderHeld, frame_ch, paintPc,
                   paintHeld, rcvd, painted, notForwarded, dropped, stall>>
    /\ UNCHANGED <<rendVars, inputVars, lifeVars, drawVars>>

\* A send that gives up on a full channel instead of waiting.
RenderSendDropping ==
    /\ renderPc = "send"
    /\ frame_ch' = IF Len(frame_ch) < FrameCap
                   THEN Append(frame_ch, renderHeld) ELSE frame_ch
    /\ renderHeld' = NoItem
    /\ renderPc' = "recv"
    /\ lastAct' = "RenderSend"
    /\ UNCHANGED <<tick, capPc, screenshot_ch, paintPc, paintHeld, rcvd,
                   produced, painted, notForwarded, dropped, stall>>
    /\ UNCHANGED <<rendVars, inputVars, lifeVars, drawVars>>

\* frame_tx.send(frame).await completes
RenderSend ==
    /\ renderPc = "send"
    /\ send_ready(frame_ch, FrameCap)
    /\ frame_ch' = Append(frame_ch, renderHeld)
    /\ renderHeld' = NoItem
    /\ renderPc' = "recv"
    /\ lastAct' = "RenderSend"
    /\ UNCHANGED <<tick, capPc, screenshot_ch, paintPc, paintHeld, rcvd,
                   produced, painted, notForwarded, dropped, stall>>
    /\ UNCHANGED <<rendVars, inputVars, lifeVars, drawVars>>

\* A failed render that ends the task (an error propagated out of the loop).
RenderNoFrameEndsTask(act) ==
    /\ renderPc = "render"
    /\ notForwarded' = notForwarded \cup {renderHeld}
    /\ renderHeld' = NoItem
    /\ renderPc' = "done"
    /\ stall' = StallFailure
    /\ lastAct' = act
    /\ UNCHANGED <<tick, capPc, screenshot_ch, frame_ch, paintPc, paintHeld,
                   rcvd, produced, painted, dropped>>
    /\ UNCHANGED <<rendVars, inputVars, lifeVars, drawVars>>

\* The outcome of a render that yields no frame: logged, back to recv.
RenderNoFrame(act) ==
    /\ renderPc = "render"
    /\ notForwarded' = notForwarded \cup {renderHeld}
    /\ renderHeld' = NoItem
    /\ renderPc' = "recv"
    /\ stall' = StallFailure
    /\ lastAct' = act
    /\ UNCHANGED <<tick, capPc, screenshot_ch, frame_ch, paintPc, paintHeld,
                   rcvd, produced, painted, dropped>>
    /\ UNCHANGED <<rendVars, inputVars, lifeVars, drawVars>>

\* spawn_blocking(..).await is Ok(Err(e)): decode or scale error
RenderErr == RenderNoFrame("RenderErr")

\* spawn_blocking(..).await is Err(e): the render worker panicked
RenderPanic == RenderNoFrame("RenderPanic")

\* ----------------------------------------------------- display_task
\* frame_rx.recv().await is Some(frame)
PaintRecv ==
    /\ paintPc = "recv"
    /\ frame_ch # <<>>
    /\ LET r == recv(frame_ch)
       IN  /\ paintHeld' = r.v
           /\ frame_ch' = r.ch
           /\ painted' = Append(painted, r.v)
    /\ paintPc' = "paint"
    /\ stall' = StallReset
    /\ lastAct' = "PaintRecv"
    /\ UNCHANGED <<tick, capPc, screenshot_ch, renderPc, renderHeld, rcvd,
                   produced, notForwarded, dropped>>
    /\ UNCHANGED <<rendVars, inputVars, lifeVars, drawVars>>

\* The cursor overlay and renderer.render(frame) return (Ok, or Err logged).
PaintDone ==
    /\ paintPc = "paint"
    /\ paintHeld' = NoItem
    /\ paintPc' = "recv"
    /\ stall' = StallReset
    /\ lastAct' = "PaintDone"
    /\ UNCHANGED <<tick, capPc, screenshot_ch, renderPc, renderHeld, frame_ch,
                   rcvd, produced, painted, notForwarded, dropped>>
    /\ UNCHANGED <<rendVars, inputVars, lifeVars, drawVars>>

\* --------------------------------------------------------- Renderer
\* Renderer::render(new_frame) returns Ok: the paint is written after what
\* stdout still buffered, all of it is flushed, and new_frame becomes the
\* front buffer.
render(new_frame) ==
    /\ LET p == render_paint(front_buffer, new_frame)
       IN  /\ term' = TermApply(term, stdout_buf \o p.out)
           /\ lastOut' = p.out
           /\ lastCall' = p.kind
    /\ stdout_buf' = <<>>
    /\ front_buffer' = <<new_frame>>
    /\ lastFrame' = <<new_frame>>
    /\ lastGood' = <<new_frame>>
    /\ UNCHANGED faults
    /\ UNCHANGED <<pipeVars, inputVars, lifeVars, drawVars>>

RenderCall == \E new_frame \in Frames : render(new_frame)

\* Renderer::render(new_frame) returns Err: a write of the paint or the
\* flush failed.  The first j pieces of the paint were written behind what
\* stdout still buffered; of that the terminal received the first k, and
\* stdout keeps the rest buffered.  The `?` returns before the front buffer
\* is assigned.
render_failed_stores_frame(new_frame) ==
    /\ faults < MaxFaults
    /\ LET p == render_paint(front_buffer, new_frame)
       IN  \E j \in 0..Len(p.out) :
             LET stream == stdout_buf \o SubSeq(p.out, 1, j)
             IN  \E k \in 0..(Len(stream) - 1) :
                   /\ term' = TermApply(term, SubSeq(stream, 1, k))
                   /\ stdout_buf' = SubSeq(stream, k + 1, Len(stream))
                   /\ lastOut' = SubSeq(p.out, 1, j)
    /\ lastCall' = "failed"
    /\ lastFrame' = <<new_frame>>
    /\ faults' = faults + 1
    /\ front_buffer' = <<new_frame>>
    /\ UNCHANGED lastGood
    /\ UNCHANGED <<pipeVars, inputVars, lifeVars, drawVars>>

render_failed(new_frame) ==
    /\ faults < MaxFaults
    /\ LET p == render_paint(front_buffer, new_frame)
       IN  \E j \in 0..Len(p.out) :
             LET stream == stdout_buf \o SubSeq(p.out, 1, j)
             IN  \E k \in 0..(Len(stream) - 1) :
                   /\ term' = TermApply(term, SubSeq(stream, 1, k))
                   /\ stdout_buf' = SubSeq(stream, k + 1, Len(stream))
                   /\ lastOut' = SubSeq(p.out, 1, j)
    /\ lastCall' = "failed"
    /\ lastFrame' = <<new_frame>>
    /\ faults' = faults + 1
    /\ UNCHANGED <<front_buffer, lastGood>>
    /\ UNCHANGED <<pipeVars, inputVars, lifeVars, drawVars>>

\* The frames handed to a Renderer whose calls may fail: one row high,
\* blank or with one inked cell.
StripFrames ==
    {f \in FramesOf(TermCols, 1) \cup FramesOf(TermCols - 1, 1) :
        Cardinality({i \in 1..Len(f.cells) : f.cells[i] # default_cell}) <= 1}

RenderStrip == \E new_frame \in StripFrames : render(new_frame)

\* The frames handed to a Renderer that is also cleared: the strips and
\* the frames of the terminal's size, blank or with one inked cell.
SurfaceFrames ==
    StripFrames \cup
    {f \in FramesOf(TermCols, TermRows) :
        Cardinality({i \in 1..Len(f.cells) : f.cells[i] # default_cell}) <= 1}

RenderSurface == \E new_frame \in SurfaceFrames : render(new_frame)

RenderFail == \E new_frame \in StripFrames : render_failed(new_frame)

\* Renderer::clear() returns Ok: the screen is erased; the front buffer
\* is not touched.
ClearCallDiscardsFrame ==
    /\ term' = TermApply(term, stdout_buf \o <<ClearAll>>)
    /\ stdout_buf' = <<>>
    /\ lastOut' = <<ClearAll>>
    /\ lastCall' = "clear"
    /\ front_buffer' = <<>>
    /\ UNCHANGED <<lastFrame, lastGood, faults>>
    /\ UNCHANGED <<pipeVars, inputVars, lifeVars, drawVars>>

ClearCall ==
    /\ term' = TermApply(term, stdout_buf \o <<ClearAll>>)
    /\ stdout_buf' = <<>>
    /\ lastOut' = <<ClearAll>>
    /\ lastCall' = "clear"
    /\ UNCHANGED <<front_buffer, lastFrame, lastGood, faults>>
    /\ UNCHANGED <<pipeVars, inputVars, lifeVars, drawVars>>

\* The Renderer under render calls.
NextRender == RenderCall

SpecRender == Init /\ [][NextRender]_vars

\* The Renderer under render and clear calls.
NextSurface ==
    \/ RenderSurface
    \/ ClearCall

SpecSurface == Init /\ [][NextSurface]_vars

\* The Renderer under render calls of which some fail.
NextFaulty ==
    \/ RenderStrip
    \/ RenderFail

SpecFaulty == Init /\ [][NextFaulty]_vars

\* ---------------------------------------------------- keyboard_task
\* KeyCode::Up: if pos.y > 0 { pos.y -= 1 }
key_up(pos) ==
    IF pos.y > 0 THEN [pos EXCEPT !.y = pos.y - 1] ELSE pos

\* KeyCode::Down: if pos.y < height - 1 { pos.y += 1 }
key_down_off_by_one(pos, h) ==
    IF pos.y < h THEN [pos EXCEPT !.y = pos.y + 1] ELSE pos

key_down(pos, h) ==
    IF pos.y < h - 1 THEN [pos EXCEPT !.y = pos.y + 1] ELSE pos

\* KeyCode::Left: if pos.x > 0 { pos.x -= 1 }
key_left(pos) ==
    IF pos.x > 0 THEN [pos EXCEPT !.x = pos.x - 1] ELSE pos

\* KeyCode::Right: if pos.x < width - 1 { pos.x += 1 }
key_right(pos, w) ==
    IF pos.x < w - 1 THEN [pos EXCEPT !.x = pos.x + 1] ELSE pos

ArrowCodes == {"Up", "Down", "Left", "Right"}

\* The match on key_event.code for the four arrow keys.  (Any other key,
\* and any event that is not a key press, changes nothing.)
arrow_key(code, pos) ==
    CASE code = "Up" -> key_up(pos)
      [] code = "Down" -> key_down(pos, height)
      [] code = "Left" -> key_left(pos)
      [] code = "Right" -> key_right(pos, width)

\* What the Input steps leave alone.
displayVars == <<displayPc, cursor_lock, overlayIdx, displayFrame, overlayIn,
                 overlayPos>>

clickVars == <<click_ch, clickPc, clickHeld, outstanding, dispatching>>

\* Input handles the press of an arrow key: cursor_pos.lock(), the guarded
\* move, and the release of the lock at the end of the block.
KeyArrowIgnoresLock ==
    /\ keyPc = "poll"
    /\ \E code \in ArrowCodes :
          /\ cursor_pos' = arrow_key(code, cursor_pos)
          /\ lastKey' = code
    /\ UNCHANGED <<width, height, keyPc, keyHeld, shutdown_ch, moves>>
    /\ UNCHANGED <<clickVars, displayVars>>
    /\ UNCHANGED <<pipeVars, rendVars, lifeVars, drawVars>>

KeyArrow ==
    /\ keyPc = "poll"
    /\ cursor_lock = "free"
    /\ \E code \in ArrowCodes :
          /\ cursor_pos' = arrow_key(code, cursor_pos)
          /\ lastKey' = code
    /\ UNCHANGED <<width, height, keyPc, keyHeld, shutdown_ch, moves>>
    /\ UNCHANGED <<clickVars, displayVars>>
    /\ UNCHANGED <<pipeVars, rendVars, lifeVars, drawVars>>

\* The same, followed for the first MaxMoves arrow keys.
KeyArrowCounted ==
    /\ keyPc = "poll"
    /\ cursor_lock = "free"
    /\ moves < MaxMoves
    /\ moves' = moves + 1
    /\ \E code \in ArrowCodes :
          /\ cursor_pos' = arrow_key(code, cursor_pos)
          /\ lastKey' = code
    /\ UNCHANGED <<width, height, keyPc, keyHeld, shutdown_ch>>
    /\ UNCHANGED <<clickVars, displayVars>>
    /\ UNCHANGED <<pipeVars, rendVars, lifeVars, drawVars>>

\* KeyCode::Enter: the coordinates are copied out of the mutex, then Input
\* enters click_tx.send((x, y)).await.
KeyEnter ==
    /\ keyPc = "poll"
    /\ cursor_lock = "free"
    /\ keyHeld' = << <<cursor_pos.x, cursor_pos.y>> >>
    /\ keyPc' = "send"
    /\ outstanding' = Append(outstanding, cursor_pos)
    /\ lastKey' = "none"
    /\ UNCHANGED <<width, height, cursor_pos, shutdown_ch, moves>>
    /\ UNCHANGED <<click_ch, clickPc, clickHeld, dispatching, displayVars>>
    /\ UNCHANGED <<pipeVars, rendVars, lifeVars, drawVars>>

\* click_tx.send((x, y)).await completes once the channel has room.
KeySend ==
    /\ keyPc = "send"
    /\ send_ready(click_ch, ClickCap)
    /\ click_ch' = Append(click_ch, keyHeld[1])
    /\ keyHeld' = <<>>
    /\ keyPc' = "poll"
    /\ lastKey' = "none"
    /\ UNCHANGED <<width, height, cursor_pos, shutdown_ch, moves>>
    /\ UNCHANGED <<clickPc, clickHeld, outstanding, dispatching, displayVars>>
    /\ UNCHANGED <<pipeVars, rendVars, lifeVars, drawVars>>

\* Ctrl+C: shutdown_tx.send(()).await, then break.
KeyCtrlC ==
    /\ keyPc = "poll"
    /\ send_ready(shutdown_ch, ShutdownCap)
    /\ shutdown_ch' = Append(shutdown_ch, "shutdown")
    /\ keyPc' = "done"
    /\ lastKey' = "none"
    /\ UNCHANGED <<width, height, cursor_pos, keyHeld, moves>>
    /\ UNCHANGED <<clickVars, displayVars>>
    /\ UNCHANGED <<pipeVars, rendVars, lifeVars, drawVars>>

\* ------------------------------------------------------- click_task
\* (x as f64 / width as f64) * 1920.0, as the exact fraction num / den
browser_x_integer_division(x, w) ==
    [num |-> (x \div w) * VIEWPORT_WIDTH, den |-> 1]

browser_x(x, w) == [num |-> x * VIEWPORT_WIDTH, den |-> w]

\* (y as f64 / height as f64) * 1080.0, as the exact fraction num / den
browser_y(y, h) == [num |-> y * VIEWPORT_HEIGHT, den |-> h]

\* click_rx.recv().await returns a click; its viewport point is computed.
ClickRecvReadsCursor ==
    /\ clickPc = "recv"
    /\ click_ch # <<>>
    /\ LET m == recv(click_ch)
       IN  /\ click_ch' = m.ch
           /\ clickHeld' = << [x |-> cursor_pos.x, y |-> cursor_pos.y,
                               browser_x |-> browser_x(cursor_pos.x, width),
                               browser_y |-> browser_y(cursor_pos.y, height)] >>
    /\ clickPc' = "click"
    /\ dispatching' = <<Head(outstanding)>>
    /\ outstanding' = Tail(outstanding)
    /\ lastKey' = "none"
    /\ UNCHANGED <<width, height, cursor_pos, keyPc, keyHeld, shutdown_ch,
                   moves>>
    /\ UNCHANGED displayVars
    /\ UNCHANGED <<pipeVars, rendVars, lifeVars, drawVars>>

ClickRecv ==
    /\ clickPc = "recv"
    /\ click_ch # <<>>
    /\ LET m == recv(click_ch)
       IN  /\ click_ch' = m.ch
           /\ clickHeld' = << [x |-> m.v[1], y |-> m.v[2],
                               browser_x |-> browser_x(m.v[1], width),
                               browser_y |-> browser_y(m.v[2], height)] >>
    /\ clickPc' = "click"
    /\ dispatching' = <<Head(outstanding)>>
    /\ outstanding' = Tail(outstanding)
    /\ lastKey' = "none"
    /\ UNCHANGED <<width, height, cursor_pos, keyPc, keyHeld, shutdown_ch,
                   moves>>
    /\ UNCHANGED displayVars
    /\ UNCHANGED <<pipeVars, rendVars, lifeVars, drawVars>>

\* streamer.click(browser_x, browser_y).await returns, Ok or with an Err
\* that is logged; the loop goes back to recv.
ClickReturns ==
    /\ clickPc = "click"
    /\ clickPc' = "recv"
    /\ clickHeld' = <<>>
    /\ dispatching' = <<>>
    /\ lastKey' = "none"
    /\ UNCHANGED <<width, height, cursor_pos, keyPc, keyHeld, shutdown_ch,
                   moves>>
    /\ UNCHANGED <<click_ch, outstanding, displayVars>>
    /\ UNCHANGED <<pipeVars, rendVars, lifeVars, drawVars>>

NextInput ==
    \/ KeyArrowCounted
    \/ KeyEnter
    \/ KeySend
    \/ KeyCtrlC
    \/ ClickRecv
    \/ ClickReturns

\* The Input and Click tasks on a terminal of any size.
SpecInput == InitAnySize /\ [][NextInput]_vars

\* ------------------------------------- display_task: cursor overlay
\* The set_cell calls in the order of the code: the offsets from the cursor
\* position and the glyph.
arrow_mask_with_tail ==
    << <<0, 0, "full_block">>, <<1, 0, "lower_half">>,
       <<0, 1, "full_block">>, <<1, 1, "full_block">>,
       <<2, 1, "full_block">>, <<3, 1, "lower_half">>,
       <<0, 2, "full_block">>, <<1, 2, "full_block">>,
       <<2, 2, "full_block">>, <<3, 2, "full_block">>,
       <<4, 2, "full_block">>, <<5, 2, "lower_half">>,
       <<0, 3, "upper_half">>, <<3, 3, "full_block">>,
       <<4, 3, "full_block">>,
       <<4, 4, "upper_half">>, <<5, 4, "upper_half">> >>

arrow_mask ==
    << <<0, 0, "full_block">>, <<1, 0, "lower_half">>,
       <<0, 1, "full_block">>, <<1, 1, "full_block">>,
       <<2, 1, "full_block">>, <<3, 1, "lower_half">>,
       <<0, 2, "full_block">>, <<1, 2, "full_block">>,
       <<2, 2, "full_block">>, <<3, 2, "full_block">>,
       <<4, 2, "full_block">>, <<5, 2, "lower_half">>,
       <<0, 3, "upper_half">>, <<3, 3, "full_block">>,
       <<4, 3, "full_block">>,
       <<4, 4, "upper_half">> >>

\* The closure set_cell: frame.set with both colours black, inside the frame
set_cell_row_check_only(frame, x, y, ch) ==
    IF y < frame.height /\ y * frame.width + x + 1 <= Len(frame.cells)
    THEN [frame EXCEPT !.cells[y * frame.width + x + 1] =
             [character |-> ch, foreground |-> black, background |-> black]]
    ELSE frame

set_cell(frame, x, y, ch) ==
    IF x < frame.width /\ y < frame.height
    THEN set(frame, x, y,
             [character |-> ch, foreground |-> black, background |-> black])
    ELSE frame

\* The set_cell calls from the i-th on, at the cursor position pos.
RECURSIVE overlay_from(_, _, _)
overlay_from(frame, pos, i) ==
    IF i > Len(arrow_mask) THEN frame
    ELSE overlay_from(set_cell(frame, pos.x + arrow_mask[i][1],
                               pos.y + arrow_mask[i][2], arrow_mask[i][3]),
                      pos, i + 1)

overlay_cursor(frame, pos) == overlay_from(frame, pos, 1)

\* The frames the Render task hands to Paint on a w x h terminal: a blank
\* page and a page of inked cells.
PageFrames(w, h) ==
    {new(w, h),
     [width |-> w, height |-> h, cells |-> [i \in 1..(w * h) |-> ink_cell]]}

inputOnly == <<width, height, cursor_pos, keyPc, keyHeld, shutdown_ch, moves>>

\* frame_rx.recv().await returns a frame.
DisplayRecv ==
    /\ displayPc = "recv"
    /\ \E frame \in PageFrames(width, height) :
          /\ displayFrame' = <<frame>>
          /\ overlayIn' = <<frame>>
    /\ overlayPos' = <<>>
    /\ displayPc' = "overlay"
    /\ lastKey' = "none"
    /\ UNCHANGED <<cursor_lock, overlayIdx>>
    /\ UNCHANGED <<inputOnly, clickVars>>
    /\ UNCHANGED <<pipeVars, rendVars, lifeVars, drawVars>>

\* cursor_pos.lock(): Paint takes the mutex of the cursor position.
DisplayLock ==
    /\ displayPc = "overlay"
    /\ cursor_lock = "free"
    /\ cursor_lock' = "display"
    /\ overlayIdx' = 1
    /\ overlayPos' = <<cursor_pos>>
    /\ displayPc' = "stamp"
    /\ lastKey' = "none"
    /\ UNCHANGED <<displayFrame, overlayIn>>
    /\ UNCHANGED <<inputOnly, clickVars>>
    /\ UNCHANGED <<pipeVars, rendVars, lifeVars, drawVars>>

\* The next set_cell call, at its offset from pos.x and pos.y as the guard
\* reads them.
DisplayStamp ==
    /\ displayPc = "stamp"
    /\ overlayIdx <= Len(arrow_mask)
    /\ displayFrame' =
          <<set_cell(displayFrame[1],
                     cursor_pos.x + arrow_mask[overlayIdx][1],
                     cursor_pos.y + arrow_mask[overlayIdx][2],
                     arrow_mask[overlayIdx][3])>>
    /\ overlayIdx' = overlayIdx + 1
    /\ lastKey' = "none"
    /\ UNCHANGED <<displayPc, cursor_lock, overlayIn, overlayPos>>
    /\ UNCHANGED <<inputOnly, clickVars>>
    /\ UNCHANGED <<pipeVars, rendVars, lifeVars, drawVars>>

\* The end of the `if let Ok(pos)` block: the guard is dropped.
DisplayUnlock ==
    /\ displayPc = "stamp"
    /\ overlayIdx > Len(arrow_mask)
    /\ cursor_lock' = "free"
    /\ displayPc' = "render"
    /\ lastKey' = "none"
    /\ UNCHANGED <<overlayIdx, displayFrame, overlayIn, overlayPos>>
    /\ UNCHANGED <<inputOnly, clickVars>>
    /\ UNCHANGED <<pipeVars, rendVars, lifeVars, drawVars>>

\* The frame is moved into renderer.render(frame), which SpecRender
\* follows; the loop goes back to recv.
DisplayRender ==
    /\ displayPc = "render"
    /\ displayFrame' = <<>>
    /\ overlayIn' = <<>>
    /\ overlayPos' = <<>>
    /\ displayPc' = "recv"
    /\ lastKey' = "none"
    /\ UNCHANGED <<cursor_lock, overlayIdx>>
    /\ UNCHANGED <<inputOnly, clickVars>>
    /\ UNCHANGED <<pipeVars, rendVars, lifeVars, drawVars>>

NextCursor ==
    \/ KeyArrow
    \/ DisplayRecv
    \/ DisplayLock
    \/ DisplayStamp
    \/ DisplayUnlock
    \/ DisplayRender

\* The cursor under arrow keys, and Paint's overlay of it, on a terminal
\* of any size.
SpecCursor == InitAnySize /\ [][NextCursor]_vars

\* --------------------------------------------- App::run, Terminal::new
\* App::run from its first statement: nothing is launched, the terminal
\* is in its cooked state and no TerminalGuard exists.
RunInit ==
    /\ PipeInit /\ RendInit /\ InputInit(TermCols, TermRows) /\ DrawIdle
    /\ run = [pc |-> "launch", result |-> "none", sigint |-> FALSE]
    /\ tty = [alt_screen |-> FALSE, raw_mode |-> FALSE,
              cursor_hidden |-> FALSE, guard |-> FALSE]

taskVars == <<pipeVars, rendVars, inputVars, drawVars>>

\* `?` on an Err: run() returns it. Its locals are dropped, and with
\* them the Terminal and its TerminalGuard if one was constructed.
\* TerminalGuard::drop: cursor::Show, disable_raw_mode, LeaveAlternateScreen,
\* each result ignored; taken here as succeeding.
restored(t) ==
    IF t.guard
    THEN [alt_screen |-> FALSE, raw_mode |-> FALSE, cursor_hidden |-> FALSE,
          guard |-> FALSE]
    ELSE t

fail(r) == [r EXCEPT !.pc = "returned", !.result = "Err"]

LaunchBrowserOk ==
    /\ run.pc = "launch"
    /\ run' = [run EXCEPT !.pc = "enter_alt"]
    /\ UNCHANGED <<tty, taskVars>>

LaunchBrowserErr ==
    /\ run.pc = "launch"
    /\ run' = fail(run)
    /\ tty' = restored(tty)
    /\ UNCHANGED taskVars

\* Terminal::new: execute!(stdout, EnterAlternateScreen)?
EnterAltOk ==
    /\ run.pc = "enter_alt"
    /\ tty' = [tty EXCEPT !.alt_screen = TRUE]
    /\ run' = [run EXCEPT !.pc = "enable_raw"]
    /\ UNCHANGED taskVars

EnterAltErr ==
    /\ run.pc = "enter_alt"
    /\ run' = fail(run)
    /\ tty' = restored(tty)
    /\ UNCHANGED taskVars

\* Terminal::new: terminal::enable_raw_mode()?
EnableRawOk ==
    /\ run.pc = "enable_raw"
    /\ tty' = [tty EXCEPT !.raw_mode = TRUE]
    /\ run' = [run EXCEPT !.pc = "hide_cursor"]
    /\ UNCHANGED taskVars

EnableRawErr ==
    /\ run.pc = "enable_raw"
    /\ run' = fail(run)
    /\ tty' = restored(tty)
    /\ UNCHANGED taskVars

\* Terminal::new: execute!(stdout, cursor::Hide)?, and then the Terminal
\* with its TerminalGuard is constructed and returned.
HideCursorOk ==
    /\ run.pc = "hide_cursor"
    /\ tty' = [tty EXCEPT !.cursor_hidden = TRUE, !.guard = TRUE]
    /\ run' = [run EXCEPT !.pc = "size"]
    /\ UNCHANGED taskVars

HideCursorErr ==
    /\ run.pc = "hide_cursor"
    /\ run' = fail(run)
    /\ tty' = restored(tty)
    /\ UNCHANGED taskVars

\* terminal.size()?
SizeOk ==
    /\ run.pc = "size"
    /\ run' = [run EXCEPT !.pc = "initialize"]
    /\ UNCHANGED <<tty, taskVars>>

SizeErr ==
    /\ run.pc = "size"
    /\ run' = fail(run)
    /\ tty' = restored(tty)
    /\ UNCHANGED taskVars

\* streamer.initialize().await?, and after it the five tokio::spawn calls:
\* run() reaches its select with the tasks running.
InitializeOk ==
    /\ run.pc = "initialize"
    /\ run' = [run EXCEPT !.pc = "running"]
    /\ UNCHANGED <<tty, taskVars>>

InitializeErr ==
    /\ run.pc = "initialize"
    /\ run' = fail(run)
    /\ tty' = restored(tty)
    /\ UNCHANGED taskVars

\* The process receives SIGINT while tokio::signal::ctrl_c() listens.
OsInterrupt ==
    /\ run.pc = "running"
    /\ ~run.sigint
    /\ run' = [run EXCEPT !.sigint = TRUE]
    /\ UNCHANGED <<tty, taskVars>>

\* A supervisor whose select has no ctrl_c() branch.
SupervisorWakeOnKeyOnly ==
    /\ run.pc = "running"
    /\ shutdown_ch # <<>>
    /\ shutdown_ch' = Tail(shutdown_ch)
    /\ run' = [run EXCEPT !.pc = "woken"]
    /\ lastKey' = "none"
    /\ UNCHANGED <<width, height, cursor_pos, keyPc, keyHeld, moves>>
    /\ UNCHANGED <<clickVars, displayVars>>
    /\ UNCHANGED <<pipeVars, rendVars, tty, drawVars>>

\* tokio::select!: shutdown_rx.recv() yields the notification, or
\* ctrl_c() completes (an Err from it is logged and shutdown proceeds).
SupervisorWake ==
    /\ run.pc = "running"
    /\ \/ /\ shutdown_ch # <<>>
          /\ shutdown_ch' = Tail(shutdown_ch)
       \/ /\ run.sigint
          /\ UNCHANGED shutdown_ch
    /\ run' = [run EXCEPT !.pc = "woken"]
    /\ lastKey' = "none"
    /\ UNCHANGED <<width, height, cursor_pos, keyPc, keyHeld, moves>>
    /\ UNCHANGED <<clickVars, displayVars>>
    /\ UNCHANGED <<pipeVars, rendVars, tty, drawVars>>

\* drop(screenshot_task) ... drop(click_task): the five JoinHandles are
\* dropped. Dropping a tokio JoinHandle detaches its task, which keeps
\* running.
DropHandles ==
    /\ run.pc = "woken"
    /\ run' = [run EXCEPT !.pc = "dropped"]
    /\ UNCHANGED <<tty, taskVars>>

\* Ok(()): run() returns and its locals, the Terminal among them, are
\* dropped.
RunReturns ==
    /\ run.pc = "dropped"
    /\ run' = [run EXCEPT !.pc = "returned", !.result = "Ok"]
    /\ tty' = restored(tty)
    /\ UNCHANGED taskVars

\* main returns what run() returned, the tokio runtime is shut down and
\* the process exits.
ProcessExit ==
    /\ run.pc = "returned"
    /\ run' = [run EXCEPT !.pc = "exited"]
    /\ UNCHANGED <<tty, taskVars>>

\* The spawned tasks run from the spawn until the runtime is shut down.
TasksAlive ==
    /\ run.pc \in {"running", "woken", "dropped", "returned"}
    /\ run.result # "Err"

InputArrow == TasksAlive /\ KeyArrowCounted
InputEnter == TasksAlive /\ KeyEnter
InputSend == TasksAlive /\ KeySend
InputCtrlC == TasksAlive /\ KeyCtrlC
ClickDispatch == TasksAlive /\ ClickRecv
ClickDone == TasksAlive /\ ClickReturns

NextRun ==
    \/ LaunchBrowserOk
    \/ LaunchBrowserErr
    \/ EnterAltOk
    \/ EnterAltErr
    \/ EnableRawOk
    \/ EnableRawErr
    \/ HideCursorOk
    \/ HideCursorErr
    \/ SizeOk
    \/ SizeErr
    \/ InitializeOk
    \/ InitializeErr
    \/ OsInterrupt
    \/ SupervisorWake
    \/ DropHandles
    \/ RunReturns
    \/ ProcessExit
    \/ InputArrow
    \/ InputEnter
    \/ InputSend
    \/ InputCtrlC
    \/ ClickDispatch
    \/ ClickDone

\* App::run from launch to exit with the Input and Click tasks. run() is
\* polled by the runtime: its select wakes when a branch is ready, and
\* the statements after it execute.
SpecRun ==
    /\ RunInit
    /\ [][NextRun]_vars
    /\ WF_vars(SupervisorWake)
    /\ WF_vars(DropHandles)
    /\ WF_vars(RunReturns)

\* ------------------------------------- quantize and convert at work
\* The channel values colours are drawn from: both ends, values that share
\* an RGB555 key (7 with 0, 12 with 8) and values in between.
shade_values == <<0, 255, 12, 7, 128, 8, 148, 198>>

Shades == {shade_values[i] : i \in 1..MaxShade}

QuantInit ==
    /\ PipeInit /\ RendInit /\ InputInit(TermCols, TermRows) /\ LifeRunning
    /\ ConvIdle /\ CoreIdle
    /\ q_rgb \in {Rgb(r, g, b) : r \in Shades, g \in Shades, b \in Shades}
    /\ q_ansi = <<>>

\* quantizer.quantize(rgb)
Quantize ==
    /\ q_ansi = <<>>
    /\ q_ansi' = <<quantize(q_rgb)>>
    /\ UNCHANGED <<q_rgb, convVars, coreVars>>
    /\ UNCHANGED <<pipeVars, rendVars, inputVars, lifeVars>>

NextQuantize == Quantize

\* quantize on the colours over Shades.
SpecQuantize == QuantInit /\ [][NextQuantize]_vars

\* convert(image, term_width, term_height) is entered with an image as
\* wide as the terminal and two pixel rows to a terminal row, the last
\* terminal row possibly with its upper pixel row alone.
ConvInit ==
    /\ PipeInit /\ RendInit /\ InputInit(TermCols, TermRows) /\ LifeRunning
    /\ QuantIdle /\ CoreIdle
    /\ \E w \in 1..TermCols : \E h \in 1..TermRows :
         \E ih \in {2 * h - 1, 2 * h} :
            /\ conv_image \in ImagesOf(w, ih)
            /\ conv_width = w
            /\ conv_height = h
            /\ conv_rows = [y \in 0..(h - 1) |-> <<>>]
    /\ conv_finished = <<>>
    /\ conv_frame = <<>>

\* A rayon worker runs the closure for a row no worker has taken.
ConvertRow ==
    /\ conv_frame = <<>>
    /\ \E y \in 0..(conv_height - 1) :
          /\ conv_rows[y] = <<>>
          /\ conv_rows' =
                [conv_rows EXCEPT
                    ![y] = <<convert_row(conv_image, conv_width, y, 0, <<>>)>>]
          /\ conv_finished' = Append(conv_finished, y)
    /\ UNCHANGED <<conv_image, conv_width, conv_height, conv_frame, quantVars,
                   coreVars>>
    /\ UNCHANGED <<pipeVars, rendVars, inputVars, lifeVars>>

\* All rows are done: collect() returns them and they are copied into the
\* frame, which convert returns.
ConvertCollect ==
    /\ conv_frame = <<>>
    /\ Len(conv_finished) = conv_height
    /\ conv_frame' =
          <<copy_rows(new(conv_width, conv_height),
                      collect(conv_rows, conv_finished), 0)>>
    /\ UNCHANGED <<conv_image, conv_width, conv_height, conv_rows,
                   conv_finished, quantVars, coreVars>>
    /\ UNCHANGED <<pipeVars, rendVars, inputVars, lifeVars>>

NextConvert == ConvertRow \/ ConvertCollect

\* convert with its rows taken by the workers in any order.
SpecConvert == ConvInit /\ [][NextConvert]_vars

\* ------------------------------------------- ScreenshotStreamer
\* The mouse events of click, in the order of the code.
click_events == <<"MouseMoved", "MousePressed", "MouseReleased">>

\* The step of click at which the event of the given type is executed.
click_pc(type) == CHOOSE i \in 1..Len(click_events) : click_events[i] = type

ClickInit ==
    /\ PipeInit /\ RendInit /\ InputInit(TermCols, TermRows) /\ LifeRunning
    /\ QuantIdle /\ ConvIdle
    /\ frame_op = [frame |-> new(0, 0), before |-> <<>>,
                   call |-> <<"new", 0, 0>>, result |-> <<>>]
    /\ browser = streamer_new

browserOnly ==
    /\ UNCHANGED <<frame_op, quantVars, convVars>>
    /\ UNCHANGED <<pipeVars, rendVars, inputVars, lifeVars>>

\* initialize() returns Ok: self.page = Some(page).  It borrows the streamer
\* mutably, so no other call is under way.
StreamerInitialize ==
    /\ browser.pc = "idle"
    /\ ~browser.page
    /\ browser' = [browser EXCEPT !.page = TRUE,
                                  !.result = <<"initialize", "Ok">>]
    /\ browserOnly

\* initialize() returns Err from new_page or wait_for_navigation: the page
\* is not set.
StreamerInitializeErr ==
    /\ browser.pc = "idle"
    /\ ~browser.page
    /\ browser' = [browser EXCEPT !.result = <<"initialize", "Err">>]
    /\ browserOnly

\* capture(): Err at once without a page; with one, page.screenshot
\* returns the image or an error.  No mouse event is involved.
StreamerCapture ==
    /\ \E r \in (IF browser.page THEN {"Ok", "Err"} ELSE {"Err"}) :
          browser' = [browser EXCEPT !.result = <<"capture", r>>]
    /\ browserOnly

\* click_task takes the next click and calls click(x, y): Err at once
\* without a page, otherwise on to the mouse move.
StreamerClick ==
    /\ browser.pc = "idle"
    /\ browser.n < MaxClicks
    /\ \E x \in 0..(TermCols - 1) : \E y \in 0..(TermRows - 1) :
         LET at == [x |-> browser_x(x, TermCols), y |-> browser_y(y, TermRows)]
         IN  browser' =
               IF browser.page
               THEN [browser EXCEPT !.pc = click_events[1], !.at = <<at>>,
                                    !.n = browser.n + 1]
               ELSE [browser EXCEPT !.n = browser.n + 1,
                                    !.result = <<"click", "Err">>]
    /\ browserOnly

\* The event handed to page.execute at this step of click.
mouse_event(ok) ==
    [type |-> browser.pc, x |-> browser.at[1].x, y |-> browser.at[1].y,
     n |-> browser.n, ok |-> ok]

\* A click that goes on to its next event after a failed page.execute.
ClickStepErrContinues ==
    /\ browser.pc \in Range(click_events)
    /\ browser' =
         LET i == click_pc(browser.pc)
             last == i = Len(click_events)
         IN  [browser EXCEPT
                !.events = Append(browser.events, mouse_event(FALSE)),
                !.pc = IF last THEN "idle" ELSE click_events[i + 1],
                !.at = IF last THEN <<>> ELSE browser.at,
                !.result = IF last THEN <<"click", "Err">> ELSE browser.result]
    /\ browserOnly

\* page.execute(event).await is Ok: on to the next event after the sleep,
\* and Ok(()) after the mouse up.
ClickStepOk ==
    /\ browser.pc \in Range(click_events)
    /\ browser' =
         LET i == click_pc(browser.pc)
             last == i = Len(click_events)
         IN  [browser EXCEPT
                !.events = Append(browser.events, mouse_event(TRUE)),
                !.pc = IF last THEN "idle" ELSE click_events[i + 1],
                !.at = IF last THEN <<>> ELSE browser.at,
                !.result = IF last THEN <<"click", "Ok">> ELSE browser.result]
    /\ browserOnly

\* page.execute(event).await is Err: the `?` returns it, click_task logs it
\* and goes back to its recv.
ClickStepErr ==
    /\ browser.pc \in Range(click_events)
    /\ browser' =
         [browser EXCEPT
            !.events = Append(browser.events, mouse_event(FALSE)),
            !.pc = "idle",
            !.at = <<>>,
            !.result = <<"click", "Err">>]
    /\ browserOnly

NextClick ==
    \/ StreamerInitialize
    \/ StreamerInitializeErr
    \/ StreamerCapture
    \/ StreamerClick
    \/ ClickStepOk
    \/ ClickStepErr

\* The streamer under initialize, capture and the clicks of click_task.
SpecClick == ClickInit /\ [][NextClick]_vars

\* --------------------------------------- TerminalFrame under calls
\* TerminalFrame::new(w, h) for a size up to the terminal's.
FrameInit ==
    /\ PipeInit /\ RendInit /\ InputInit(TermCols, TermRows) /\ LifeRunning
    /\ QuantIdle /\ ConvIdle
    /\ \E w \in 1..TermCols : \E h \in 1..TermRows :
          frame_op = [frame |-> new(w, h), before |-> <<>>,
                      call |-> <<"new", w, h>>, result |-> <<>>]
    /\ browser = streamer_ready

\* frame.set(x, y, cell), with x and y up to one past the terminal's size.
FrameSet ==
    /\ \E x \in 0..TermCols : \E y \in 0..TermRows : \E cell \in CellValues :
          frame_op' = [frame |-> set(frame_op.frame, x, y, cell),
                       before |-> <<frame_op.frame>>,
                       call |-> <<"set", x, y, cell>>,
                       result |-> <<>>]
    /\ UNCHANGED <<browser, quantVars, convVars>>
    /\ UNCHANGED <<pipeVars, rendVars, inputVars, lifeVars>>

\* frame.get(x, y)
FrameGet ==
    /\ \E x \in 0..TermCols : \E y \in 0..TermRows :
          frame_op' = [frame |-> frame_op.frame,
                       before |-> <<frame_op.frame>>,
                       call |-> <<"get", x, y>>,
                       result |-> get(frame_op.frame, x, y)]
    /\ UNCHANGED <<browser, quantVars, convVars>>
    /\ UNCHANGED <<pipeVars, rendVars, inputVars, lifeVars>>

NextFrame == FrameSet \/ FrameGet

\* A TerminalFrame under any sequence of set and get calls.
SpecFrame == FrameInit /\ [][NextFrame]_vars

\* ------------------------------------------------------------- Spec
Next ==
    \/ CaptureTick
    \/ CaptureOk
    \/ CaptureErr
    \/ RenderRecv
    \/ RenderOk
    \/ RenderSend
    \/ RenderErr
    \/ RenderPanic
    \/ PaintRecv
    \/ PaintDone

Spec == Init /\ [][Next]_vars

\* The pipeline for as long as a Paint stall of StallMs takes.
NextStall ==
    \/ CaptureTickStall
    \/ CaptureOk
    \/ CaptureErr
    \/ RenderRecv
    \/ RenderOk
    \/ RenderSend
    \/ RenderErr
    \/ RenderPanic
    \/ PaintRecv
    \/ PaintDone

SpecStall == Init /\ [][NextStall]_vars

\* The tokio scheduler polls a task that is ready: a Render send whose
\* permit is free completes, and Paint keeps receiving and painting.
NextLive ==
    \/ CaptureTickLive
    \/ CaptureOk
    \/ CaptureErr
    \/ RenderRecv
    \/ RenderOk
    \/ RenderSend
    \/ RenderErr
    \/ RenderPanic
    \/ PaintRecv
    \/ PaintDone

SpecLive ==
    /\ Init
    /\ [][NextLive]_vars
    /\ WF_vars(RenderSend)
    /\ WF_vars(PaintRecv)
    /\ WF_vars(PaintDone)

\* ------------------------------------------------------------ claims
\* The frames Render has finished producing that are still on their way
\* to Paint: queued in the frame channel or held by Render in its send.
FramesInFlight ==
    Range(frame_ch) \cup (IF renderPc = "send" THEN {renderHeld} ELSE {})

\* Those of them that come from a later screenshot than Paint's frame.
LaterFrames == {f \in FramesInFlight : f > paintHeld}

Pos(s, v) == CHOOSE i \in 1..Len(s) : s[i] = v

\* C1: in every reachable state the screenshot channel holds at most 2
\* screenshots and the frame channel at most 1 frame.
C1_ChannelDepth ==
    /\ Len(screenshot_ch) <= 2
    /\ Len(frame_ch) <= 1

\* Both channels full, and a capture has just been turned away.
C1_Witness ==
    /\ Len(screenshot_ch) = 2
    /\ Len(frame_ch) = 1
    /\ lastAct = "CaptureOk"
    /\ tick \in dropped

\* C2: Render receives screenshots in capture order: a screenshot received
\* earlier was captured earlier; drops leave gaps and never reorder.
C2_CaptureOrder ==
    \A i, j \in 1..Len(rcvd) : i < j => rcvd[i] < rcvd[j]

\* Render received a screenshot captured after one that was dropped, which
\* itself came after one Render had received before.
C2_Witness ==
    \E i \in 1..Len(rcvd) : \E d \in dropped :
        /\ i < Len(rcvd)
        /\ rcvd[i] < d
        /\ d < rcvd[i + 1]

\* C3: Paint receives frames in the order Render produced them, and at
\* most one frame is queued between Render and Paint.
C3_FrameOrder ==
    /\ \A i, j \in 1..Len(painted) :
          i < j => /\ painted[i] \in Range(produced)
                   /\ painted[j] \in Range(produced)
                   /\ Pos(produced, painted[i]) < Pos(produced, painted[j])
    /\ Len(frame_ch) <= 1

\* Paint has received two frames, a third is queued and Render holds a
\* fourth in its send.
C3_Witness ==
    /\ Len(painted) >= 2
    /\ Len(frame_ch) = 1
    /\ renderPc = "send"

\* C4 as stated: when Paint receives a frame, no frame produced from a
\* later screenshot exists anywhere in the pipeline, the one Render holds
\* in its send included.
C4_Original ==
    lastAct = "PaintRecv" => LaterFrames = {}

\* C4 as amended: when Paint receives a frame, no frame from a later
\* screenshot is queued in the frame channel, and at most one such frame
\* exists in the pipeline (the one Render holds in its send).
C4_Amended ==
    lastAct = "PaintRecv" =>
        /\ \A f \in Range(frame_ch) : f <= paintHeld
        /\ Cardinality(LaterFrames) <= 1

\* Paint has just received a frame while Render holds a later one.
C4_Witness ==
    /\ lastAct = "PaintRecv"
    /\ renderPc = "send"
    /\ renderHeld > paintHeld

\* C5: Capture never waits on the screenshot channel: a successful
\* capture is queued when fewer than 2 screenshots are queued, otherwise it
\* is discarded and the queue is left as it is; after a drop or a failed
\* capture the task is back at its next tick.
C5_CaptureNeverBlocks ==
    /\ [](capPc = "capture" => ENABLED CaptureOk)
    /\ [][ /\ (capPc = "capture" /\ lastAct' = "CaptureOk") =>
                /\ capPc' = "tick"
                /\ IF Len(screenshot_ch) < 2
                   THEN /\ screenshot_ch' = Append(screenshot_ch, tick)
                        /\ dropped' = dropped
                   ELSE /\ screenshot_ch' = screenshot_ch
                        /\ dropped' = dropped \cup {tick}
           /\ (capPc = "capture" /\ lastAct' = "CaptureErr") =>
                /\ capPc' = "tick"
                /\ screenshot_ch' = screenshot_ch
                /\ dropped' = dropped
         ]_vars

\* A capture has just been discarded on a full channel.
C5_Witness ==
    /\ lastAct = "CaptureOk"
    /\ tick \in dropped
    /\ Len(screenshot_ch) = 2
    /\ capPc = "tick"

\* C6 as stated: after the captures of a 500 ms Paint stall (7 ticks of
\* 66 ms), all successful, at most one screenshot is queued and at least
\* six were dropped.
C6_Original ==
    (paintPc = "paint" /\ stall.clean /\ stall.ticks >= StallTicks) =>
        /\ Len(screenshot_ch) <= 1
        /\ stall.drops >= 6

\* C6 as amended: during the stall at most two screenshots are queued, and
\* when every capture and every render of the stall succeeds at least
\* three of its (at least 7) screenshots are dropped.
C6_Amended ==
    paintPc = "paint" =>
        /\ Len(screenshot_ch) <= 2
        /\ (stall.clean /\ stall.ticks >= StallTicks) => stall.drops >= 3

\* A stall of 7 successful captures that dropped exactly three.
C6_Witness ==
    /\ paintPc = "paint"
    /\ stall.clean
    /\ stall.ticks = StallTicks
    /\ stall.drops = 3
    /\ Len(screenshot_ch) = 2

\* C7: Render never discards a frame it produced: every produced frame is
\* queued, held by Render in its send, or was received by Paint, and Paint
\* receives none twice; while Paint keeps receiving, every produced frame
\* is eventually received by Paint.
C7_NoFrameLost ==
    /\ [](/\ \A f \in Range(produced) :
                f \in FramesInFlight \/ f \in Range(painted)
          /\ \A i, j \in 1..Len(painted) : i # j => painted[i] # painted[j]
          /\ \A f \in Range(painted) : f \notin FramesInFlight)
    /\ \A f \in 1..MaxLiveTicks :
          (f \in Range(produced)) ~> (f \in Range(painted))

\* Render waited in its send on a full frame channel, and the frame it
\* held then has reached Paint.
C7_Witness ==
    /\ lastAct = "PaintRecv"
    /\ Len(painted) >= 3
    /\ renderPc = "send"

\* C8: a screenshot whose render failed or panicked yields no frame, and
\* the Render task is back at its receive, able to take the next
\* screenshot.
C8_RenderSurvives ==
    /\ \A s \in notForwarded :
          /\ s \notin Range(produced)
          /\ s \notin FramesInFlight
          /\ s \notin Range(painted)
          /\ s # renderHeld
    /\ lastAct \in {"RenderErr", "RenderPanic"} =>
          /\ renderPc = "recv"
          /\ screenshot_ch # <<>> => ENABLED RenderRecv

\* After a failed render and a panicked one, a later screenshot was
\* received, rendered and handed to Paint.
C8_Witness ==
    \E a, b \in notForwarded : \E f \in Range(painted) :
        /\ a < b
        /\ b < f
        /\ lastAct = "PaintRecv"

\* C9: for frames old and new of equal dimensions, the diff paint of new
\* on a terminal that shows old leaves every cell as a full paint of new on
\* that terminal would.
C9_DiffEqualsFull ==
    [][ (/\ lastCall' = "diff"
         /\ front_buffer # <<>>
         /\ Shows(term, front_buffer[1]))
        => /\ front_buffer[1].width = front_buffer'[1].width
           /\ front_buffer[1].height = front_buffer'[1].height
           /\ term'.cells =
                TermApply(term, render_full(front_buffer'[1])).cells
      ]_vars

\* A diff paint has rewritten two cells in different rows, and the
\* terminal shows the new frame.
C9_Witness ==
    /\ lastCall = "diff"
    /\ Shows(term, front_buffer[1])
    /\ \E a, b \in 1..Len(lastOut) :
          /\ lastOut[a][1] = "MoveTo"
          /\ lastOut[b][1] = "MoveTo"
          /\ lastOut[a][3] # lastOut[b][3]

\* C10: a render of the frame that is already the front buffer writes the
\* attribute reset and nothing else: no cursor move, no colour, no glyph.
C10_RepaintIsReset ==
    [][ (/\ lastCall' \in {"full", "diff"}
         /\ front_buffer # <<>>
         /\ front_buffer' = front_buffer)
        => lastOut' = <<AttrReset>>
      ]_vars

\* The second render of an inked frame has just written only the reset.
C10_Witness ==
    /\ lastCall = "diff"
    /\ lastOut = <<AttrReset>>
    /\ front_buffer # <<>>
    /\ \E i \in 1..Len(front_buffer[1].cells) :
          front_buffer[1].cells[i] = ink_cell
    /\ Shows(term, front_buffer[1])

\* C11: a render does a full paint exactly when there is no front buffer
\* or the front buffer's width or height differs from the new frame's, and
\* a diff paint otherwise; after a render that returned Ok the front buffer
\* is the new frame.
C11_FullPaintIffNoBaseline ==
    [][ lastCall' \in {"full", "diff"} =>
          LET new_frame == lastFrame'[1]
          IN  /\ (lastCall' = "full") <=>
                    \/ front_buffer = <<>>
                    \/ front_buffer[1].width # new_frame.width
                    \/ front_buffer[1].height # new_frame.height
              /\ lastCall' = "full" => lastOut' = render_full(new_frame)
              /\ front_buffer' = <<new_frame>>
      ]_vars

\* A full paint of a frame narrower than the one painted before it, whose
\* last column is still on the screen.
C11_Witness ==
    /\ lastCall = "full"
    /\ front_buffer # <<>>
    /\ front_buffer[1].width < TermCols
    /\ front_buffer = lastFrame
    /\ \E y \in 0..(TermRows - 1) : term.cells[<<TermCols - 1, y>>] # erased_cell

\* The cells of new_frame that differ from old_frame's, as indices in
\* row-major order (cell (x, y) is index y * width + x).
ChangedCells(old_frame, new_frame) ==
    {i \in 0..(new_frame.width * new_frame.height - 1) :
        old_frame.cells[i + 1] # new_frame.cells[i + 1]}

\* What a diff paint is to write for the changed cells S, the cell written
\* before them being prev: for each cell in row-major order a cursor move
\* unless prev is its left neighbour in the same row, then its colours and
\* glyph; the attribute reset at the end.
RECURSIVE DiffExpected(_, _, _)
DiffExpected(new_frame, S, prev) ==
    IF S = {} THEN <<AttrReset>>
    ELSE LET i == CHOOSE j \in S : \A k \in S : j <= k
             x == i % new_frame.width
             y == i \div new_frame.width
         IN  (IF prev = <<i - 1>> /\ x > 0 THEN <<>> ELSE <<MoveTo(x, y)>>)
             \o cell_bytes(new_frame.cells[i + 1])
             \o DiffExpected(new_frame, S \ {i}, <<i>>)

\* The frames of the example: size (3, 1), only cell (1, 0) changes.
Example31Old ==
    [width |-> 3, height |-> 1,
     cells |-> <<default_cell, default_cell, default_cell>>]

Example31New ==
    [width |-> 3, height |-> 1,
     cells |-> <<default_cell, ink_cell, default_cell>>]

\* C12: a diff paint writes only the cells whose value changed, in
\* row-major order, with a cursor move before a changed cell exactly when
\* the cell written before it is not its left neighbour in the same row;
\* for a (3, 1) frame that changes only cell (1, 0) it writes one cursor
\* move, one foreground, one background, one glyph and the reset.
C12_DiffWritesChangedCells ==
    [][ lastCall' = "diff" =>
          /\ lastOut' = DiffExpected(front_buffer'[1],
                            ChangedCells(front_buffer[1], front_buffer'[1]),
                            <<>>)
          /\ render_diff(Example31Old, Example31New).out =
                << MoveTo(1, 0), <<"Fg", ink_cell.foreground>>,
                   <<"Bg", ink_cell.background>>,
                   <<"Glyph", ink_cell.character>>, AttrReset >>
      ]_vars

\* A diff paint has written two neighbouring cells after one cursor move
\* and left the other cells alone.
C12_Witness ==
    /\ lastCall = "diff"
    /\ Len(lastOut) = 8
    /\ lastOut[1][1] = "MoveTo"
    /\ lastOut[4][1] = "Glyph"
    /\ lastOut[5][1] = "Fg"
    /\ lastOut[7][1] = "Glyph"

\* C13: a render that fails leaves the front buffer as it was, holding
\* the frame of the last render that returned Ok, or none; the render call
\* after it paints against that front buffer.
C13_FailureKeepsFrontBuffer ==
    [][ /\ lastCall' = "failed" =>
              /\ front_buffer' = front_buffer
              /\ front_buffer' = lastGood
        /\ (lastCall = "failed" /\ lastCall' \in {"full", "diff"}) =>
              /\ lastCall' = render_paint(lastGood, lastFrame'[1]).kind
              /\ lastOut' = render_paint(lastGood, lastFrame'[1]).out
      ]_vars

\* A render of another frame has failed after a frame had been painted,
\* with part of its paint written; the front buffer is the painted frame.
C13_Witness ==
    /\ lastCall = "failed"
    /\ front_buffer # <<>>
    /\ lastFrame # front_buffer
    /\ front_buffer = lastGood
    /\ Len(lastOut) > 0

\* C14: clear() leaves every cell of the surface blank and the front
\* buffer as it was; the render call after a clear() paints against the
\* frame that was painted before the clear.
C14_ClearKeepsFrontBuffer ==
    [][ /\ lastCall' = "clear" =>
              /\ \A p \in TermCells : term'.cells[p].character = "space"
              /\ front_buffer' = front_buffer
        /\ (lastCall = "clear" /\ lastCall' \in {"full", "diff"}) =>
              /\ lastCall' = render_paint(lastGood, lastFrame'[1]).kind
              /\ lastOut' = render_paint(lastGood, lastFrame'[1]).out
      ]_vars

\* A clear() has erased a painted, inked frame, and the front buffer still
\* holds that frame.
C14_Witness ==
    /\ lastCall = "clear"
    /\ front_buffer # <<>>
    /\ \E i \in 1..Len(front_buffer[1].cells) :
          front_buffer[1].cells[i] = ink_cell
    /\ \A p \in TermCells : term.cells[p].character = "space"

\* The position one cell from pos in direction (dx, dy), or pos itself
\* when that cell is off the screen.
Moved(pos, dx, dy) ==
    LET q == [x |-> pos.x + dx, y |-> pos.y + dy]
    IN  IF q.x \in 0..(width - 1) /\ q.y \in 0..(height - 1) THEN q ELSE pos

OnScreen(pos) == pos.x \in 0..(width - 1) /\ pos.y \in 0..(height - 1)

\* C15: on a terminal of at least one column and one row the cursor
\* position is always on the screen, and an arrow key moves it by one cell
\* in its own direction, or not at all when that cell is off the screen.
C15_CursorStaysOnScreen ==
    [][ /\ OnScreen(cursor_pos)
        /\ OnScreen(cursor_pos')
        /\ lastKey' = "Up" => cursor_pos' = Moved(cursor_pos, 0, -1)
        /\ lastKey' = "Down" => cursor_pos' = Moved(cursor_pos, 0, 1)
        /\ lastKey' = "Left" => cursor_pos' = Moved(cursor_pos, -1, 0)
        /\ lastKey' = "Right" => cursor_pos' = Moved(cursor_pos, 1, 0)
      ]_vars

\* Down was pressed on a terminal of one row: the cursor stayed where it
\* was.
C15_Witness ==
    /\ height = 1
    /\ width = MaxCols
    /\ lastKey = "Down"
    /\ cursor_pos = [x |-> MaxCols - 1, y |-> 0]

\* The clicks on their way to the Click task, oldest first: those queued in
\* the channel, then the one Input is sending.
ClicksInFlight == click_ch \o (IF keyPc = "send" THEN keyHeld ELSE <<>>)

\* C16: every click on its way carries the cursor position of its Enter
\* press, whatever arrow keys were handled since, the clicks are queued in
\* the order of their Enter presses, and the click the Click task
\* dispatches is the oldest not yet received.
C16_ClickCarriesEnterPosition ==
    /\ Len(ClicksInFlight) = Len(outstanding)
    /\ \A i \in 1..Len(outstanding) :
          ClicksInFlight[i] = <<outstanding[i].x, outstanding[i].y>>
    /\ clickPc = "click" =>
          /\ clickHeld[1].x = dispatching[1].x
          /\ clickHeld[1].y = dispatching[1].y

\* The Click task dispatches a click made before the cursor moved, and a
\* click made after the move is queued behind it.
C16_Witness ==
    /\ clickPc = "click"
    /\ <<clickHeld[1].x, clickHeld[1].y>> # <<cursor_pos.x, cursor_pos.y>>
    /\ Len(click_ch) = 1
    /\ click_ch[1] = <<cursor_pos.x, cursor_pos.y>>

\* a < b for fractions with positive denominators
FracLess(a, b) == a.num * b.den < b.num * a.den

\* C17: the Click task maps (x, y) to (x * 1920 / cols, y * 1080 / rows);
\* the point lies in the viewport, 0 <= bx < 1920 and 0 <= by < 1080, and
\* the mapping is increasing in x and in y.
C17_ClickMapping ==
    /\ clickPc = "click" =>
          LET c == clickHeld[1]
          IN  /\ c.browser_x.den > 0
              /\ c.browser_y.den > 0
              /\ c.browser_x.num * width = c.x * 1920 * c.browser_x.den
              /\ c.browser_y.num * height = c.y * 1080 * c.browser_y.den
              /\ 0 <= c.browser_x.num
              /\ c.browser_x.num < 1920 * c.browser_x.den
              /\ 0 <= c.browser_y.num
              /\ c.browser_y.num < 1080 * c.browser_y.den
    /\ \A x1, x2 \in 0..(width - 1) :
          /\ 0 <= browser_x(x1, width).num
          /\ browser_x(x1, width).num < 1920 * browser_x(x1, width).den
          /\ x1 < x2 => FracLess(browser_x(x1, width), browser_x(x2, width))
    /\ \A y1, y2 \in 0..(height - 1) :
          /\ 0 <= browser_y(y1, height).num
          /\ browser_y(y1, height).num < 1080 * browser_y(y1, height).den
          /\ y1 < y2 => FracLess(browser_y(y1, height), browser_y(y2, height))

\* The Click task dispatches a click made right of the middle of the
\* widest terminal, away from the top edge.
C17_Witness ==
    /\ clickPc = "click"
    /\ width = MaxCols
    /\ clickHeld[1].x = width \div 2 + 1
    /\ clickHeld[1].y > 0

\* C18: the Input task never waits on the click channel: it is never in
\* the send of a click while the channel holds 10 clicks.
C18_InputNeverWaits ==
    ~(keyPc = "send" /\ Len(click_ch) = 10)

\* The offsets of the cells of the arrow from the cursor position.
MaskOffsets ==
    {<<0, 0>>, <<1, 0>>,
     <<0, 1>>, <<1, 1>>, <<2, 1>>, <<3, 1>>,
     <<0, 2>>, <<1, 2>>, <<2, 2>>, <<3, 2>>, <<4, 2>>, <<5, 2>>,
     <<0, 3>>, <<3, 3>>, <<4, 3>>,
     <<4, 4>>}

\* The cells of the frame Paint holds that the overlay has changed.
Overwritten ==
    {i \in 1..Len(displayFrame[1].cells) :
        displayFrame[1].cells[i] # overlayIn[1].cells[i]}

\* C19, as stated: the overlay overwrites at most 13 cells of the frame.
C19_Original ==
    displayPc = "render" => Cardinality(Overwritten) <= 13

\* C19: the overlay overwrites at most 16 cells of the frame, and 16 when
\* the frame reaches 5 columns to the right of the cursor position and 4
\* rows below it.
C19_Amended ==
    displayPc = "render" =>
        /\ Cardinality(Overwritten) <= 16
        /\ (overlayPos[1].x + 5 < width /\ overlayPos[1].y + 4 < height)
              => Cardinality(Overwritten) = 16

\* The overlay has stamped the whole arrow on a frame.
C19_Witness ==
    /\ displayPc = "render"
    /\ Cardinality(Overwritten) = 16

\* C20: after the overlay, every cell of the frame at a mask offset from
\* the cursor position has foreground = background = AnsiColor(16), every
\* other cell is as it was, and the frame has the width, height and
\* number of cells it had; mask cells off the frame are written nowhere.
C20_OverlayWritesMaskOnly ==
    displayPc = "render" =>
        LET f == displayFrame[1]
            g == overlayIn[1]
            pos == overlayPos[1]
        IN  /\ f.width = g.width
            /\ f.height = g.height
            /\ Len(f.cells) = Len(g.cells)
            /\ Len(f.cells) = f.width * f.height
            /\ \A x \in 0..(f.width - 1) : \A y \in 0..(f.height - 1) :
                  LET i == y * f.width + x + 1
                  IN  IF <<x - pos.x, y - pos.y>> \in MaskOffsets
                      THEN /\ f.cells[i].foreground = 16
                           /\ f.cells[i].background = 16
                      ELSE f.cells[i] = g.cells[i]

\* The overlay has stamped the arrow at the right edge of an inked frame
\* of several rows: part of the mask fell off the frame.
C20_Witness ==
    /\ displayPc = "render"
    /\ overlayPos[1].x = width - 1
    /\ overlayPos[1].y + 2 < height
    /\ overlayIn[1].cells[1] = ink_cell
    /\ Cardinality(Overwritten) = 4

\* C21: the arrow on a frame Paint hands to the renderer is the whole
\* mask stamped at one position, the cursor position at the moment Paint
\* took the lock, whatever arrow keys were pressed around the overlay; and
\* the cursor does not move while Paint stamps.
C21_OverlayFromOneSnapshot ==
    /\ displayPc = "render" =>
          /\ OnScreen(overlayPos[1])
          /\ displayFrame[1] = overlay_cursor(overlayIn[1], overlayPos[1])
    /\ displayPc = "stamp" => cursor_pos = overlayPos[1]

\* An arrow key has moved the cursor after Paint stamped the whole arrow
\* on an inked frame at the position before the move.
C21_Witness ==
    /\ displayPc = "render"
    /\ lastKey \in ArrowCodes
    /\ cursor_pos # overlayPos[1]
    /\ overlayIn[1].cells[1] = ink_cell
    /\ Cardinality({i \in 1..Len(displayFrame[1].cells) :
                      displayFrame[1].cells[i] # overlayIn[1].cells[i]}) = 16

\* Where Input and Click stand.
TaskState == <<keyPc, keyHeld, cursor_pos, click_ch, clickPc, clickHeld>>

\* run() is past its five drop(...) statements.
HandlesDropped == run.pc \in {"dropped", "returned", "exited"}

\* C22: once Input has handled Ctrl+C or the process has received an OS
\* interrupt, run() eventually has dropped the task handles and returned
\* Ok; and once Input has handled Ctrl+C it handles no further key event:
\* the cursor does not move and no click is sent.
C22_ShutdownReturnsOk ==
    /\ (keyPc = "done" \/ run.sigint)
          ~> (HandlesDropped /\ run.result = "Ok")
    /\ [][keyPc = "done" =>
             /\ keyPc' = "done"
             /\ cursor_pos' = cursor_pos
             /\ keyHeld' = keyHeld
             /\ Len(click_ch') <= Len(click_ch)]_vars

C22_Witness ==
    /\ run.pc = "returned"
    /\ run.result = "Ok"
    /\ keyPc = "done"
    /\ ~run.sigint

\* C23: after the supervisor has dropped the task handles no task takes
\* a further step: Input and Click stay where they were at the drop.
C23_DropCancelsTasks ==
    [][HandlesDropped => TaskState' = TaskState]_vars

\* C24: whenever run() has ended, whether with Ok or with an Err from
\* Terminal::new or from a later step, the terminal is out of the
\* alternate screen and of raw mode and its cursor is shown.
C24_TerminalRestoredOnExit ==
    run.pc \in {"returned", "exited"} =>
        /\ ~tty.alt_screen
        /\ ~tty.raw_mode
        /\ ~tty.cursor_hidden

\* The 8-bit colour ColorQuantizer::new looks up for the RGB555 key of
\* rgb: each channel's top 5 bits, bit-replicated.
Replicated(c) == expand(c \div 8)

KeyColour(rgb) == Rgb(Replicated(rgb.r), Replicated(rgb.g), Replicated(rgb.b))

\* C25: quantize of a colour equals quantize of the colour of its
\* bit-replicated channels, and equals the LUT entry at index
\* ((r>>3)<<10) | ((g>>3)<<5) | (b>>3).
C25_QuantizeTopFiveBits ==
    q_ansi # <<>> =>
        /\ q_ansi[1] = quantize(KeyColour(q_rgb))
        /\ q_ansi[1] = lut((q_rgb.r \div 8) * 1024 + (q_rgb.g \div 8) * 32
                            + (q_rgb.b \div 8))

C25_Witness ==
    /\ q_rgb = Rgb(12, 12, 12)
    /\ KeyColour(q_rgb) = Rgb(8, 8, 8)
    /\ q_ansi = <<232>>

\* The distance in L*a*b* from the key colour of rgb to palette entry i.
PaletteDistance(rgb, i) ==
    color_distance_lab(rgb_to_lab(KeyColour(rgb)),
                       rgb_to_lab(ANSI_PALETTE[i]))

\* C26: the LUT entry of a key is a palette index at minimal L*a*b*
\* distance from the key's bit-replicated colour, and the lowest of the
\* indices at that distance.
C26_LutIsNearestLowestIndex ==
    q_ansi # <<>> =>
        LET entry == lut(lut_index(q_rgb.r \div 8, q_rgb.g \div 8,
                                   q_rgb.b \div 8))
        IN  /\ entry = q_ansi[1]
            /\ \A j \in 0..255 :
                  \/ PaletteDistance(q_rgb, entry) < PaletteDistance(q_rgb, j)
                  \/ /\ PaletteDistance(q_rgb, entry)
                          = PaletteDistance(q_rgb, j)
                     /\ entry <= j

C26_Witness ==
    /\ q_ansi # <<>>
    /\ q_rgb = Rgb(0, 0, 7)
    /\ q_ansi[1] = 0
    /\ PaletteDistance(q_rgb, 16) = PaletteDistance(q_rgb, 0)
    /\ \A j \in 0..255 \ {0, 16} : PaletteDistance(q_rgb, j) > 0

\* The palette indices whose entry is exactly the key colour of rgb.
ExactMatches(rgb) == {i \in 0..255 : ANSI_PALETTE[i] = KeyColour(rgb)}

\* C27: a colour whose bit-replicated expansion is a palette entry
\* quantizes to the lowest index holding it: black to 0 (not 16), white to
\* 15 (not 231), pure red to 9 (not 196).
C27_ExactMatchLowestIndex ==
    q_ansi # <<>> =>
        /\ ExactMatches(q_rgb) # {} =>
              /\ q_ansi[1] \in ExactMatches(q_rgb)
              /\ \A i \in ExactMatches(q_rgb) : q_ansi[1] <= i
        /\ q_rgb = Rgb(0, 0, 0) => q_ansi[1] = 0
        /\ q_rgb = Rgb(255, 255, 255) => q_ansi[1] = 15
        /\ q_rgb = Rgb(255, 0, 0) => q_ansi[1] = 9

C27_Witness ==
    /\ q_rgb = Rgb(255, 0, 0)
    /\ q_ansi = <<9>>
    /\ ExactMatches(q_rgb) = {9, 196}

\* C28: in the palette quantize answers from, entry 16 + 36r + 6g + b has
\* the channels level(r), level(g), level(b) with level(0) = 0 and
\* level(i) = 55 + 40i; entry 232 + i is the grey 8 + 10i; every channel
\* is within 0..255.
C28_PaletteFormulas ==
    q_ansi # <<>> =>
        /\ \A r \in 0..5 : \A g \in 0..5 : \A b \in 0..5 :
              ANSI_PALETTE[16 + 36 * r + 6 * g + b] =
                  Rgb(IF r = 0 THEN 0 ELSE 55 + 40 * r,
                      IF g = 0 THEN 0 ELSE 55 + 40 * g,
                      IF b = 0 THEN 0 ELSE 55 + 40 * b)
        /\ \A i \in 0..23 :
              ANSI_PALETTE[232 + i] = Rgb(8 + 10 * i, 8 + 10 * i, 8 + 10 * i)
        /\ \A i \in 0..255 :
              /\ ANSI_PALETTE[i].r \in 0..255
              /\ ANSI_PALETTE[i].g \in 0..255
              /\ ANSI_PALETTE[i].b \in 0..255
        /\ ANSI_PALETTE[232] = Rgb(8, 8, 8)
        /\ ANSI_PALETTE[255] = Rgb(238, 238, 238)

C28_Witness ==
    /\ q_rgb = Rgb(255, 128, 0)
    /\ q_ansi = <<208>>
    /\ ANSI_PALETTE[208] = Rgb(255, 135, 0)
    /\ DOMAIN ANSI_PALETTE = 0..255

\* The quantized colour of the image's pixel (x, y).
PixelAnsi(img, x, y) == quantizer[get_pixel(img, x, y)]

\* C29: every cell (x, y) of the converted frame is the full block with
\* foreground = background = top exactly when top = bottom, and otherwise
\* the upper half block with foreground = top and background = bottom,
\* where bottom is top when pixel row 2y+1 is outside the image.
C29_CellFromPixelPair ==
    conv_frame # <<>> =>
        \A x \in 0..(conv_width - 1) : \A y \in 0..(conv_height - 1) :
            LET top == PixelAnsi(conv_image, x, 2 * y)
                bottom == IF 2 * y + 1 < conv_image.height
                          THEN PixelAnsi(conv_image, x, 2 * y + 1)
                          ELSE top
                cell == get(conv_frame[1], x, y)[1]
                full == [character |-> "full_block", foreground |-> top,
                         background |-> top]
                half == [character |-> "upper_half", foreground |-> top,
                         background |-> bottom]
            IN  /\ cell = full <=> top = bottom
                /\ top # bottom => cell = half

C29_Witness ==
    /\ conv_frame # <<>>
    /\ conv_width = 1 /\ conv_height = 2 /\ conv_image.height = 3
    /\ get(conv_frame[1], 0, 0) =
          <<[character |-> "upper_half", foreground |-> 15, background |-> 0]>>
    /\ get(conv_frame[1], 0, 1) =
          <<[character |-> "full_block", foreground |-> 0, background |-> 0]>>

\* The image one pixel wide that holds only the pixels (x, 2y) and, if the
\* image has it, (x, 2y+1).
PixelPair(img, x, y) ==
    LET top == get_pixel(img, x, 2 * y)
        has_bottom == 2 * y + 1 < img.height
        bottom == get_pixel(img, x, 2 * y + 1)
    IN  [width |-> 1,
         height |-> IF has_bottom THEN 2 ELSE 1,
         data |-> IF has_bottom
                  THEN <<top.r, top.g, top.b, bottom.r, bottom.g, bottom.b>>
                  ELSE <<top.r, top.g, top.b>>]

\* C30: convert returns a frame of term_width x term_height cells equal to
\* the frame of the sequential row-by-row conversion, in whatever order
\* the workers finished the rows, and each cell (x, y) is determined by
\* the pixels (x, 2y) and (x, 2y+1).
C30_ParallelEqualsSequential ==
    conv_frame # <<>> =>
        /\ conv_frame[1].width = conv_width
        /\ conv_frame[1].height = conv_height
        /\ Len(conv_frame[1].cells) = conv_width * conv_height
        /\ conv_frame[1] =
              convert_sequential(conv_image, conv_width, conv_height)
        /\ \A x \in 0..(conv_width - 1) : \A y \in 0..(conv_height - 1) :
              get(conv_frame[1], x, y) =
                  <<convert_cell(PixelPair(conv_image, x, y), 0, 0)>>

C30_Witness ==
    /\ conv_frame # <<>>
    /\ conv_finished = <<1, 0>>
    /\ conv_width = 2
    /\ get(conv_frame[1], 1, 0) # get(conv_frame[1], 1, 1)
    /\ get(conv_frame[1], 1, 1) =
          <<[character |-> "upper_half", foreground |-> 0, background |-> 15]>>

\* The positions (x, y) within a frame.
CellsOf(frame) == (0..(frame.width - 1)) \X (0..(frame.height - 1))

\* C31: a frame made by new(w, h) has w*h cells, all (space, 0, 0); the
\* cell count stays w*h under set; a set out of bounds changes nothing, a
\* get out of bounds returns none, and a set in bounds changes the cell at
\* (x, y) alone, which get(x, y) then returns.
C31_FrameCellsAndBounds ==
    LET f == frame_op.frame
        call == frame_op.call
        inside == call[2] < f.width /\ call[3] < f.height
    IN  /\ Len(f.cells) = f.width * f.height
        /\ call[1] = "new" =>
              /\ f.width = call[2] /\ f.height = call[3]
              /\ \A i \in 1..Len(f.cells) :
                    f.cells[i] = [character |-> "space", foreground |-> 0,
                                  background |-> 0]
        /\ call[1] = "set" /\ ~inside => f = frame_op.before[1]
        /\ call[1] = "set" /\ inside =>
              /\ f.width = frame_op.before[1].width
              /\ f.height = frame_op.before[1].height
              /\ get(f, call[2], call[3]) = <<call[4]>>
              /\ \A p \in CellsOf(f) \ {<<call[2], call[3]>>} :
                    get(f, p[1], p[2]) = get(frame_op.before[1], p[1], p[2])
        /\ call[1] = "get" =>
              /\ f = frame_op.before[1]
              /\ ~inside => frame_op.result = <<>>
              /\ inside =>
                    frame_op.result = <<f.cells[call[3] * f.width + call[2] + 1]>>

C31_Witness ==
    /\ frame_op.call = <<"set", 2, 0, ink_cell>>
    /\ frame_op.frame.width = 2 /\ frame_op.frame.height = 2
    /\ frame_op.before # <<>>
    /\ frame_op.frame = frame_op.before[1]
    /\ frame_op.frame.cells[4] = ink_cell
    /\ frame_op.frame.cells[3] = default_cell

\* The captured items downstream of Capture: queued screenshots, what
\* Render holds, queued frames, what Paint holds.
Holding(held) == IF held = NoItem THEN 0 ELSE 1

InFlight ==
    Len(screenshot_ch) + Holding(renderHeld) + Len(frame_ch)
        + Holding(paintHeld)

\* C32: at most 2 screenshots are queued, 1 item held by Render, 1 frame
\* queued and 1 held by Paint, at most 5 in flight in all, also while Paint
\* stays in its paint; a successful capture that finds the queue full is
\* dropped, the queue is as it was, and Capture is back at its tick; with
\* 5 in flight Capture can still take its capture and its next tick.
C32_InFlightBounded ==
    /\ Len(screenshot_ch) <= 2
    /\ Len(frame_ch) <= 1
    /\ InFlight <= 5
    /\ (InFlight = 5 /\ capPc = "capture") => ENABLED CaptureOk
    /\ (InFlight = 5 /\ capPc = "tick" /\ tick < MaxTicks) =>
          ENABLED CaptureTick
    /\ lastAct = "CaptureOk" =>
          /\ capPc = "tick"
          /\ IF tick \in dropped
             THEN /\ Len(screenshot_ch) = 2
                  /\ tick \notin Range(screenshot_ch)
             ELSE Last(screenshot_ch) = tick

\* Five items in flight, Paint still in its paint, and the capture that
\* came on top of them has just been dropped.
C32_Witness ==
    /\ InFlight = 5
    /\ paintPc = "paint"
    /\ renderPc = "send"
    /\ lastAct = "CaptureOk"
    /\ tick \in dropped
    /\ Cardinality(dropped) >= 2

\* C33: among render calls of which some fail part-way through their
\* writes, whenever the last call is a render(g) that returned Ok the
\* surface shows g in every cell of g's area.
C33_SuccessOverwritesFailure ==
    lastCall \in {"full", "diff"} => Shows(term, lastFrame[1])

Follows(i, type) ==
    LET ev == browser.events
    IN  /\ i > 1
        /\ ev[i - 1].type = type
        /\ ev[i - 1].ok
        /\ ev[i - 1].n = ev[i].n
        /\ ev[i - 1].x = ev[i].x
        /\ ev[i - 1].y = ev[i].y

\* C35: click executes mouse-moved, mouse-pressed, mouse-released in this
\* order at the same coordinates and stops at the first that fails, so a
\* mouse-released follows a successful mouse-pressed of the same click;
\* without a page capture and click return Err and no event is executed;
\* the events of one click are never among those of another.
C35_ClickSequence ==
    LET ev == browser.events
    IN  /\ \A i \in 1..Len(ev) :
              /\ ev[i].type = "MouseMoved" =>
                    i = 1 \/ /\ ev[i - 1].n < ev[i].n
                             /\ \/ ~ev[i - 1].ok
                                \/ ev[i - 1].type = "MouseReleased"
              /\ ev[i].type = "MousePressed" => Follows(i, "MouseMoved")
              /\ ev[i].type = "MouseReleased" => Follows(i, "MousePressed")
              /\ ~ev[i].ok => (i = Len(ev) \/ ev[i + 1].n > ev[i].n)
        /\ \A i, j \in 1..Len(ev) : i < j => ev[i].n <= ev[j].n
        /\ ~browser.page =>
              /\ ev = <<>>
              /\ browser.pc = "idle"
              /\ browser.result[1] \in {"capture", "click"} =>
                    browser.result[2] = "Err"
        /\ browser.result = <<"click", "Ok">> =>
              /\ Len(ev) >= 3
              /\ \E i \in 3..Len(ev) :
                    /\ ev[i].type = "MouseReleased" /\ ev[i].ok
                    /\ ev[i].n = browser.n - (IF browser.pc = "idle" THEN 0 ELSE 1)

\* A click before initialize returned Err with no event; the next one, with
\* the page set, was moved and pressed and failed at its release.
C35_Witness ==
    /\ browser.page
    /\ browser.n = 2
    /\ browser.pc = "idle"
    /\ browser.result = <<"click", "Err">>
    /\ Len(browser.events) = 3
    /\ browser.events[1].n = 2
    /\ browser.events[3].type = "MouseReleased"
    /\ ~browser.events[3].ok

\* The keys of the table: the (r5, g5, b5) the loops of new() go through.
Keys555 == (0..31) \X (0..31) \X (0..31)

\* The index new() writes for each key.
lut_written == [k \in Keys555 |-> lut_index(k[1], k[2], k[3])]

\* The indices of [u8; 32768].
LutIndices == 0..32767

\* Every index of the table is written for exactly one key, which the
\* index gives back.
LutIsBijection ==
    /\ \A k \in Keys555 :
          /\ lut_written[k] \in LutIndices
          /\ lut_written[k] \div 1024 = k[1]
          /\ (lut_written[k] \div 32) % 32 = k[2]
          /\ lut_written[k] % 32 = k[3]
    /\ {lut_written[k] : k \in Keys555} = LutIndices
    /\ Cardinality(Keys555) = Cardinality(LutIndices)

\* The assertions of test_lut_index.
test_lut_index ==
    /\ lut_index(0, 0, 0) = 0
    /\ lut_index(31, 31, 31) = 32767
    /\ lut_index(1, 0, 0) = 1024
    /\ lut_index(0, 1, 0) = 32
    /\ lut_index(0, 0, 1) = 1

\* C36: lut_index is a bijection from the keys (r5, g5, b5) of 0..31 each
\* onto 0..32767, so new() writes each of the 32768 entries once, and the
\* index quantize looks up for a colour is within the table.
C36_LutIndexBijection ==
    q_ansi # <<>> =>
        /\ LutIsBijection
        /\ test_lut_index
        /\ \A v \in 0..255 : v \div 8 \in 0..31
        /\ lut_index(q_rgb.r \div 8, q_rgb.g \div 8, q_rgb.b \div 8)
              \in LutIndices
        /\ lut_index(q_rgb.r \div 8, q_rgb.g \div 8, q_rgb.b \div 8)
              = (q_rgb.r \div 8) * 1024 + (q_rgb.g \div 8) * 32
                  + (q_rgb.b \div 8)

\* White has been quantized through the last entry of the table.
C36_Witness ==
    /\ q_ansi # <<>>
    /\ q_rgb = Rgb(255, 255, 255)
    /\ lut_index(q_rgb.r \div 8, q_rgb.g \div 8, q_rgb.b \div 8) = 32767

====
